---- MODULE Spec2Model ----
(***************************************************************************)
(* ArtAtlas backend: the art manager service's get_picture_of_the_day      *)
(* (enrichment on read, daily random pick), the user manager, the bearer   *)
(* token dependency and the /user/subscription route, as state machines    *)
(* over the document store's collections; then the read-only lookups       *)
(* (artworks by gallery, artworks by ids), the database handle of          *)
(* engine/data/db.py, the image proxy, POST /art/askai and the scrapers.   *)
(*                                                                         *)
(* Concurrency grain: calls of different server processes interleave at    *)
(* the store operations (find_one, insert_one, update_one) and at the      *)
(* LLM call; the statements between two such operations are local.         *)
(***************************************************************************)
EXTENDS Integers, Sequences, FiniteSets, TLC

VARIABLES artworks, users, today, calls, http, galleries, lookups, mongo,
          proxy, scrape, disk, parsed, pager

\* The state the later parts of the model add to the first five variables.
\* The variables of the parts added last.
later == <<disk, parsed, pager>>

aux == <<galleries, lookups, mongo, proxy, scrape, later>>

vars == <<artworks, users, today, calls, http, aux>>

(***************************************************************************)
(* Bounds of the model.                                                    *)
(***************************************************************************)
MaxCalls == 2
MaxDay == 3
MaxReqs == 1
MaxLookups == 1
MaxIds == 2
MaxDbOps == 4
MaxProxies == 2
MaxListing == 2
MaxFile == 2
MaxRuns == 2
MaxData == 3
MaxRestarts == 1

CallIds == 1..MaxCalls
ReqIds == 1..MaxReqs
LookupIds == 1..MaxLookups
ProxyIds == 1..MaxProxies

(***************************************************************************)
(* Values.  Optional[T] is a sequence of length <= 1: <<>> is None.        *)
(* A raw store document is a dict: a key that is missing maps to Absent;   *)
(* a key stored with null maps to Null.                                    *)
(***************************************************************************)
Absent == "<absent>"
Null == "<None>"
None == <<>>
Some(x) == <<x>>

\* Python truthiness of dict.get(k): a missing key, None and "" are falsy.
Truthy(v) == v \notin {Absent, Null, ""}

(***************************************************************************)
(* Identifiers.  The store keys artworks by ObjectId; callers pass the id  *)
(* as a string.  ObjectId(s) and str(oid) are conversions, not identities. *)
(***************************************************************************)
HexIds == {"a1", "a2"}
IdInputs == HexIds \cup {"zz"}
ObjectIdIsValid(s) == s \in HexIds
ObjectId(s) == <<"ObjectId", s>>
StrOfObjectId(oid) == oid[2]
StoredOid == ObjectId("a1")

(***************************************************************************)
(* ArtworkData: four representative fields of the schema.  image_url       *)
(* gates the LLM worker, details_in_image marks a record as enriched,      *)
(* artworks_id links an artwork to its gallery, description stands for     *)
(* every other non-identifier field.                                       *)
(***************************************************************************)
ArtFields == {"image_url", "details_in_image", "description", "artworks_id"}

\* ArtworkData(**d): unknown keys dropped, missing fields default to None,
\* "_id" is taken through the alias and an ObjectId is rendered as str.
ArtworkData(d) ==
    [id |-> StrOfObjectId(d._id),
     f  |-> [k \in ArtFields |-> IF d.f[k] = Absent THEN Null ELSE d.f[k]]]

RawDoc(oid, f) == [_id |-> oid, f |-> f]

\* Documents the artworks collection may hold for one artwork when the service
\* starts: written by the importer, each key present or not.
StoredDocs ==
    {RawDoc(StoredOid, f) : f \in
        {g \in [ArtFields -> {Absent, Null, "", "orig"}] :
            /\ g["image_url"] \in {Absent, "orig"}
            /\ g["description"] \in {Absent, "orig"}
            /\ g["artworks_id"] = Absent}}

(***************************************************************************)
(* LLM enrichment worker, llm_generate_artwork_metadata.                   *)
(***************************************************************************)
\* json.loads(llm_output.text): what the model answered, field by field.
LlmResults ==
    {r \in [ArtFields -> {Absent, Null, "llm"}] :
        /\ r["image_url"] = Absent
        /\ r["description"] \in {Absent, "llm"}
        /\ r["artworks_id"] = Absent}

\* Exceptions the worker lets through: image fetch, API call, JSON parse,
\* schema validation (all subclasses of Exception), RuntimeError among them.
LlmErrors == {"RuntimeError", "ValueError", "RequestException"}

\* The worker's outcomes on one payload: a missing image URL raises ValueError
\* before any network call; otherwise any error, or any parsed result.
LlmOutcomes(doc) ==
    IF ~Truthy(doc.f["image_url"])
    THEN {[err |-> "ValueError", result |-> [k \in ArtFields |-> Absent]]}
    ELSE {[err |-> e, result |-> [k \in ArtFields |-> Absent]] : e \in LlmErrors}
         \cup {[err |-> "", result |-> r] : r \in LlmResults}

\* The worker's merge: "_id" always from the original, stringified; any other
\* original key only where the LLM result lacks the key or holds None.
MergeOriginalIntoResult(result, doc) ==
    [_id |-> doc._id,
     f   |-> [k \in ArtFields |->
                IF doc.f[k] = Absent THEN result[k]
                ELSE IF result[k] \in {Absent, Null} THEN doc.f[k]
                ELSE result[k]]]

\* The value llm_generate_artwork_metadata returns on success.
LlmGenerateArtworkMetadata(result, doc) ==
    ArtworkData(MergeOriginalIntoResult(result, doc))

(***************************************************************************)
(* ArtManagerService.get_picture_of_the_day, enrichment on read.           *)
(***************************************************************************)
\* res = res.model_dump(); for k, v in artwork_doc.items(): res[k] = v;
\* ArtworkData(**res): every key the stored document has overwrites the
\* worker's value, whatever the stored value is.
MergeStoredOverResult(inst, doc) ==
    ArtworkData(
        [_id |-> doc._id,
         f   |-> [k \in ArtFields |->
                    IF doc.f[k] # Absent THEN doc.f[k] ELSE inst.f[k]]])

\* model_dump(exclude_none=True, by_alias=True) with "_id" deleted.
UpdatePayload(inst) ==
    [k \in {x \in ArtFields : inst.f[x] # Null} |-> inst.f[k]]

\* update_one({"_id": oid}, {"$set": payload}) on the artworks collection.
UpdateOneSet(coll, oid, payload) ==
    IF oid \in DOMAIN coll
    THEN [coll EXCEPT ![oid] =
            [_id |-> @._id,
             f   |-> [k \in ArtFields |->
                        IF k \in DOMAIN payload THEN payload[k] ELSE @.f[k]]]]
    ELSE coll

\* What the call answers and writes once the worker has returned `result`.
EnrichSuccess(doc, result) ==
    LET inst == MergeStoredOverResult(LlmGenerateArtworkMetadata(result, doc), doc)
        payload == UpdatePayload(inst)
    IN  [status |-> 200,
         body   |-> Some(inst),
         write  |-> IF DOMAIN payload # {} THEN Some(payload) ELSE None]

\* A mutant of EnrichFailure: only RuntimeError is caught.
EnrichFailure_OnlyRuntimeError(doc, err) ==
    IF err = "RuntimeError"
    THEN [status |-> 200, body |-> Some(ArtworkData(doc)), write |-> None]
    ELSE [status |-> 500, body |-> None, write |-> None]

\* except RuntimeError / except Exception: return ArtworkData(**artwork_doc).
EnrichFailure(doc, err) ==
    [status |-> 200, body |-> Some(ArtworkData(doc)), write |-> None]

\* One call of the service: its position and its locals.
IdleCall ==
    [pc |-> "idle", uid |-> "", id |-> None, doc |-> None, cur |-> None,
     status |-> 0, body |-> None, llm |-> "none", llmOut |-> None,
     write |-> None, afterOk |-> FALSE, sawDetails |-> FALSE,
     user |-> None, reset |-> FALSE, fresh |-> FALSE, with |-> {}]

Started(c) == calls[c].pc # "idle"
\* Call slots are taken in order: the slot number is only a name.
NextSlot(c) == ~Started(c) /\ \A d \in CallIds : d < c => Started(d)

Finish(rec, status, body) ==
    [rec EXCEPT !.pc = "done", !.status = status, !.body = body]

\* A call with an id already completed an enrichment of that id.
EnrichedBefore(id) ==
    \E d \in CallIds : /\ calls[d].pc = "done"
                       /\ calls[d].llm = "ok"
                       /\ calls[d].id = Some(id)

Uids == {"u1", "u2"}

\* A variant of the call with an id that counts the view against the
\* caller's daily quota.
GetPictureById_ConsumesQuota(c, u, id) ==
    /\ NextSlot(c)
    /\ calls' = [calls EXCEPT ![c] =
          Finish([IdleCall EXCEPT !.uid = u, !.id = Some(id)], 200, None)]
    /\ users' = [v \in DOMAIN users |->
                    IF v = u
                    THEN [users[v] EXCEPT !.daily_random_art_count_img = @ + 1]
                    ELSE users[v]]
    /\ UNCHANGED <<artworks, today, http, aux>>

\* get_picture_of_the_day(user_uid, user_email, id, db) with an id: validate,
\* find_one, and answer at once unless details_in_image is missing.
GetPictureById(c, u, id) ==
    /\ NextSlot(c)
    /\ LET rec == [IdleCall EXCEPT !.uid = u, !.id = Some(id),
                                   !.afterOk = EnrichedBefore(id)]
           oid == ObjectId(id)
       IN  calls' = [calls EXCEPT ![c] =
             IF ~ObjectIdIsValid(id) THEN Finish(rec, 400, None)
             ELSE IF oid \notin DOMAIN artworks THEN Finish(rec, 404, None)
             ELSE IF Truthy(artworks[oid].f["details_in_image"])
                  THEN Finish([rec EXCEPT !.doc = Some(artworks[oid]),
                                          !.sawDetails = TRUE],
                              200, Some(ArtworkData(artworks[oid])))
             ELSE [rec EXCEPT !.pc = "llm", !.doc = Some(artworks[oid])]]
    /\ UNCHANGED <<artworks, users, today, http, aux>>

\* The worker returns or raises; on success the merged fields are written
\* back with one update_one and the merged record is returned.
EnrichReturn(c) ==
    /\ calls[c].pc = "llm"
    /\ \E out \in LlmOutcomes(calls[c].doc[1]) :
         LET doc == calls[c].doc[1]
             r == IF out.err = "" THEN EnrichSuccess(doc, out.result)
                  ELSE EnrichFailure(doc, out.err)
         IN  /\ calls' = [calls EXCEPT ![c] =
                   Finish([@ EXCEPT !.llm = IF out.err = "" THEN "ok" ELSE "fail",
                                    !.llmOut = IF out.err = "" THEN Some(out.result)
                                               ELSE None,
                                    !.write = r.write],
                          r.status, r.body)]
             /\ artworks' = IF r.write # None
                            THEN UpdateOneSet(artworks, doc._id, r.write[1])
                            ELSE artworks
    /\ UNCHANGED <<users, today, http, aux>>

\* One HTTP request: its position, what it carried, what happened to it.
IdleRequest ==
    [pc |-> "idle", route |-> "", token |-> "", new_status |-> "",
     provider |-> None, user |-> None, status |-> 0, detail |-> "",
     ran |-> FALSE, store |-> FALSE, prior |-> None]

NoRequests == [r \in ReqIds |-> IdleRequest]

\* One call of a read-only lookup of the art manager service.
IdleLookup ==
    [pc |-> "idle", op |-> "", gallery_id |-> "", single |-> FALSE,
     ids |-> << >>, status |-> 0, err |-> "", body |-> << >>, finds |-> 0]

\* engine/data/db.py as imported: no client, no handle.  `created` counts
\* the MongoClient objects constructed so far (client k is the k-th), `log`
\* is the sequence of calls made to the module with their outcomes.
MongoUnset == [client |-> None, db |-> None, created |-> 0, log |-> << >>]

\* One call of proxy_image: its position, the URL's prefix, the state of the
\* AsyncClient and of the upstream response, what the fetch brought, the
\* answer, and the chunks streamed to the caller.
IdleProxy ==
    [pc |-> "idle", scheme |-> "", client |-> "none", response |-> "none",
     fetches |-> 0, upstream |-> 0, content_type |-> Absent, status |-> 0,
     media_type |-> "", sent |-> << >>, aborted |-> FALSE]

\* A scraper that has not been started: no output file, nothing listed.
NoScrape ==
    [variant |-> "", pc |-> "idle", file |-> << >>, site |-> << >>,
     start |-> << >>, data |-> << >>, processed |-> {}, pos |-> 0,
     todo |-> << >>, fetched |-> << >>, runs |-> 0,
     done |-> << >>, completed |-> << >>, saves |-> << >>]

\* A file's content: the entries written to it, and whether the writing was
\* brought to its end (a file that is not complete does not parse).
FileOf(entries) == [entries |-> entries, complete |-> TRUE]

\* The output file and its temp file before any scraper has run.
NoDisk ==
    [variant |-> "", pc |-> "idle", target |-> FileOf(<< >>), tmp |-> None,
     data |-> << >>, restarts |-> 0]

\* No document handed to parse_result, no collection being paginated.
NoParse == [pc |-> "idle", kind |-> "", arg |-> << >>, outKind |-> "", out |-> << >>]
NoPager ==
    [pc |-> "idle", cap |-> None, site |-> << >>, page |-> 0,
     result |-> << >>, stop |-> ""]

\* The state of the parts added last, at rest.
LaterIdle ==
    /\ disk = NoDisk
    /\ parsed = NoParse
    /\ pager = NoPager

\* The added state at rest: no gallery stored, no lookup made.
AuxIdle ==
    /\ galleries = << >>
    /\ lookups = [l \in LookupIds |-> IdleLookup]
    /\ mongo = MongoUnset
    /\ proxy = [p \in ProxyIds |-> IdleProxy]
    /\ scrape = NoScrape
    /\ LaterIdle

InitArt ==
    /\ artworks \in {(StoredOid :> d) : d \in StoredDocs}
    /\ users = << >>
    /\ today = 1
    /\ calls = [c \in CallIds |-> IdleCall]
    /\ http = NoRequests
    /\ AuxIdle

NextArt ==
    \/ \E c \in CallIds, u \in Uids, id \in IdInputs : GetPictureById(c, u, id)
    \/ \E c \in CallIds : EnrichReturn(c)

SpecArt == InitArt /\ [][NextArt]_vars

(***************************************************************************)
(* Claims about enrichment on read (SpecArt).                              *)
(***************************************************************************)
Present(v) == v \notin {Absent, Null}

\* C1: once a call for an id has found the record without details_in_image
\* and its enrichment has succeeded, every call for that id that starts later
\* finds details_in_image populated in the store and does not invoke the LLM
\* worker.
C1_EnrichmentIdempotent ==
    \A c \in CallIds :
        (Started(c) /\ calls[c].afterOk) =>
            /\ calls[c].sawDetails
            /\ calls[c].pc # "llm"
            /\ calls[c].llm = "none"

\* C2: when the worker raises, whatever the exception, the call answers 200
\* with the stored record it had read, as ArtworkData, and the artworks
\* collection is left as it was.
C2_FailureReturnsOriginal ==
    [][\A c \in CallIds :
          (calls[c].pc = "llm" /\ calls'[c].llm = "fail") =>
              /\ calls'[c].pc = "done"
              /\ calls'[c].status = 200
              /\ calls'[c].body = Some(ArtworkData(calls[c].doc[1]))
              /\ calls'[c].write = None
              /\ artworks' = artworks]_vars

\* C2's case: a worker that had an image URL to fetch raised, and the call
\* has answered.
C2_Witness ==
    \E c \in CallIds :
        /\ calls[c].pc = "done"
        /\ calls[c].llm = "fail"
        /\ Truthy(calls[c].doc[1].f["image_url"])

\* C3: after a successful enrichment, for every field where the stored
\* document and the LLM output both hold a value, the value returned and the
\* value persisted are the LLM's; the stored value is returned only where the
\* LLM output is absent.
C3_LlmAuthoritative ==
    \A c \in CallIds :
        (calls[c].pc = "done" /\ calls[c].llm = "ok") =>
            \A k \in ArtFields :
                LET stored == calls[c].doc[1].f[k]
                    llm == calls[c].llmOut[1][k]
                IN  (Present(stored) /\ Present(llm)) =>
                        /\ calls[c].body[1].f[k] = llm
                        /\ calls[c].write # None
                        /\ k \in DOMAIN calls[c].write[1]
                        /\ calls[c].write[1][k] = llm

(***************************************************************************)
(* Users.  A user document, keyed by the identity provider's uid.          *)
(***************************************************************************)
RANDOM_ART_DAILY_LIMIT == 5

Email(u) == IF u = "u1" THEN "u1@mail" ELSE "u2@mail"

\* UserApp(_id=user_id, email=email).model_dump(by_alias=True): the defaults.
NewUser(u, email) ==
    [_id |-> u, email |-> email, subscription_status |-> "free_tier",
     subscription_provider_id |-> None, created_at |-> None, updated_at |-> None,
     daily_interaction_count |-> 0, daily_random_art_count_img |-> 0,
     last_interaction_date |-> None, last_random_art_date |-> None,
     daily_random_art_ids |-> << >>]

\* User documents the users collection may hold when the service starts.
StoredUsers(u, day) ==
    {[NewUser(u, Email(u)) EXCEPT !.daily_random_art_count_img = n,
                                  !.last_random_art_date = d,
                                  !.daily_random_art_ids = ids] :
        n \in {0, RANDOM_ART_DAILY_LIMIT},
        d \in {None} \cup {Some(x) : x \in {day - 1, day}},
        ids \in {<< >>, <<"a1">>}}

UserCollections(day) ==
    {f \in [Uids -> {None} \cup {Some(d) : d \in StoredUsers("u1", day)
                                              \cup StoredUsers("u2", day)}] :
        \A u \in Uids : f[u] # None => f[u][1]._id = u}

\* The collection as a function on the ids it holds.
AsCollection(f) ==
    [u \in {x \in DOMAIN f : f[x] # None} |-> f[u][1]]

(***************************************************************************)
(* get_picture_of_the_day without an id: UserManager.check_user, then the   *)
(* daily bookkeeping.  UserApp declares last_random_art_date as             *)
(* Optional[date], so a stored ISO string is read back as a date object and *)
(* date.fromisoformat(<date>) at line 79 raises TypeError; with no stored   *)
(* date the reset update runs and user[...] = 0 at line 91 raises TypeError *)
(* (a pydantic model has no item assignment).  Either way the call ends in  *)
(* an unhandled exception, so lines 92-122 (sample, $inc, fallback) never   *)
(* run and no action stands for them.                                       *)
(***************************************************************************)
InFlight(u) ==
    {d \in CallIds : /\ calls[d].pc \in {"insert", "reset"}
                     /\ calls[d].uid = u}

\* check_user's find_one, and for a stored user lines 77-81.
RandomStart(c, u) ==
    /\ NextSlot(c)
    /\ LET rec == [IdleCall EXCEPT !.uid = u, !.with = InFlight(u)]
       IN  calls' = [calls EXCEPT ![c] =
             IF u \notin DOMAIN users THEN [rec EXCEPT !.pc = "insert"]
             ELSE IF users[u].last_random_art_date # None
                  THEN Finish([rec EXCEPT !.user = Some(users[u]),
                                          !.cur = Some(today)], 500, None)
             ELSE [rec EXCEPT !.pc = "reset", !.user = Some(users[u]),
                              !.cur = Some(today)]]
    /\ UNCHANGED <<artworks, users, today, http, aux>>

\* check_user's insert_one of the new user; the store refuses a second
\* document with the same _id (DuplicateKeyError).
CheckUserInsert(c) ==
    /\ calls[c].pc = "insert"
    /\ LET u == calls[c].uid
           new == NewUser(u, Email(u))
       IN  IF u \in DOMAIN users
           THEN /\ calls' = [calls EXCEPT ![c] = Finish(@, 500, None)]
                /\ users' = users
           ELSE /\ calls' = [calls EXCEPT ![c] =
                      [@ EXCEPT !.pc = "reset", !.user = Some(new),
                                !.cur = Some(today)]]
                /\ users' = (u :> new) @@ users
    /\ UNCHANGED <<artworks, today, http, aux>>

\* update_one($set counter 0, last date today), lines 82-90.
ResetDaily(coll, u, day) ==
    IF u \in DOMAIN coll
    THEN [coll EXCEPT ![u].daily_random_art_count_img = 0,
                      ![u].last_random_art_date = Some(day)]
    ELSE coll

\* Lines 81-91 for a user without a last date: the reset is written, then
\* line 91 raises.
ResetDailyCounter(c) ==
    /\ calls[c].pc = "reset"
    /\ users' = ResetDaily(users, calls[c].uid, calls[c].cur[1])
    /\ calls' = [calls EXCEPT ![c] = Finish([@ EXCEPT !.reset = TRUE], 500, None)]
    /\ UNCHANGED <<artworks, today, http, aux>>

\* Midnight.
AdvanceDay ==
    /\ today < MaxDay
    /\ today' = today + 1
    /\ UNCHANGED <<artworks, users, calls, http, aux>>

FirstDay == 2

InitRandom ==
    /\ artworks = (StoredOid :> RawDoc(StoredOid,
                       [k \in ArtFields |-> "orig"]))
    /\ today = FirstDay
    /\ users \in {AsCollection(f) : f \in UserCollections(FirstDay)}
    /\ calls = [c \in CallIds |-> IdleCall]
    /\ http = NoRequests
    /\ AuxIdle

NextRandom ==
    \/ \E c \in CallIds, u \in Uids : RandomStart(c, u)
    \/ \E c \in CallIds : CheckUserInsert(c)
    \/ \E c \in CallIds : ResetDailyCounter(c)
    \/ AdvanceDay

SpecRandom == InitRandom /\ [][NextRandom]_vars

(***************************************************************************)
(* Claims about the daily random pick (SpecRandom).                        *)
(***************************************************************************)
\* A finished call without an id that had a user record in hand.
RandomDone(c) ==
    /\ calls[c].pc = "done"
    /\ calls[c].id = None
    /\ calls[c].user # None

\* The counter the pick logic is to compare with the quota: 0 when the lazy
\* reset applies (no last date, or one before the call's date).
EffectiveCount(rec) ==
    IF \/ rec.user[1].last_random_art_date = None
       \/ rec.user[1].last_random_art_date[1] < rec.cur[1]
    THEN 0
    ELSE rec.user[1].daily_random_art_count_img

\* C4: a call without an id for a user whose counter is 5 and whose last
\* random-art date is before today resets the counter (and the seen-today
\* list) and is served a freshly sampled artwork.
C4_LazyResetServesFresh ==
    \A c \in CallIds :
        ( /\ RandomDone(c)
          /\ calls[c].user[1].daily_random_art_count_img = RANDOM_ART_DAILY_LIMIT
          /\ calls[c].user[1].last_random_art_date # None
          /\ calls[c].user[1].last_random_art_date[1] < calls[c].cur[1] ) =>
            /\ calls[c].reset
            /\ calls[c].status = 200
            /\ calls[c].fresh

\* C5: a call without an id for a user whose counter is 5, whose last
\* random-art date is today and whose seen-today list is not empty is served
\* an artwork whose id is in that list: no fresh sample, no error.
C5_QuotaFallbackServesSeen ==
    \A c \in CallIds :
        ( /\ RandomDone(c)
          /\ calls[c].user[1].daily_random_art_count_img = RANDOM_ART_DAILY_LIMIT
          /\ calls[c].user[1].last_random_art_date = calls[c].cur
          /\ calls[c].user[1].daily_random_art_ids # << >> ) =>
            /\ calls[c].status = 200
            /\ ~calls[c].fresh
            /\ calls[c].body # None
            /\ \E i \in DOMAIN calls[c].user[1].daily_random_art_ids :
                   calls[c].user[1].daily_random_art_ids[i] = calls[c].body[1].id

\* C6: a call without an id that finds the counter below the quota is served
\* a freshly sampled artwork, and the step that serves it raises the user's
\* counter by exactly one and appends the served id to the seen-today list.
C6_FreshPickCountsAndRecords ==
    [][\A c \in CallIds :
          ( /\ calls[c].pc # "done"
            /\ RandomDone(c)'
            /\ EffectiveCount(calls'[c]) < RANDOM_ART_DAILY_LIMIT ) =>
              /\ calls'[c].fresh
              /\ calls'[c].body # None
              /\ users'[calls'[c].uid].daily_random_art_count_img
                     = EffectiveCount(calls'[c]) + 1
              /\ \E i \in DOMAIN users'[calls'[c].uid].daily_random_art_ids :
                     users'[calls'[c].uid].daily_random_art_ids[i]
                         = calls'[c].body[1].id]_vars

\* C7: two calls without an id of one user, the second started while the
\* first was in flight, that both read a counter below 5 are both served a
\* fresh sample.
C7_RaceAdmitsBoth ==
    \A c, d \in CallIds :
        ( /\ c # d
          /\ RandomDone(c) /\ RandomDone(d)
          /\ calls[c].uid = calls[d].uid
          /\ d \in calls[c].with
          /\ EffectiveCount(calls[c]) < RANDOM_ART_DAILY_LIMIT
          /\ EffectiveCount(calls[d]) < RANDOM_ART_DAILY_LIMIT ) =>
            (calls[c].fresh /\ calls[d].fresh)

\* What holds instead under SpecRandom: no call without an id is ever
\* served (every one ends in the unhandled TypeError), so no interleaving
\* serves a fresh sample to anyone.
NoRandomCallServed ==
    \A c \in CallIds :
        RandomDone(c) => (calls[c].status = 500 /\ ~calls[c].fresh)

(***************************************************************************)
(* Read-only lookups of the art manager service:                           *)
(* get_artworks_by_gallery_id and fetch_artworks_by_ids.  Neither awaits,  *)
(* so each call is one step.                                               *)
(***************************************************************************)
Min(a, b) == IF a < b THEN a ELSE b

\* The orders in which a cursor may hand out the documents of a set: the
\* store promises none.
NaturalOrders(S) ==
    {s \in [1..Cardinality(S) -> S] :
        \A i, j \in 1..Cardinality(S) : s[i] = s[j] => i = j}

\* cursor.skip(skip).limit(limit) over one such order.
SkipLimit(s, skip, limit) == SubSeq(s, skip + 1, Min(Len(s), skip + limit))

\* find({"artworks_id": v}): the documents whose field equals v.
FindByArtworksId(coll, v) ==
    {coll[o] : o \in {x \in DOMAIN coll : coll[x].f["artworks_id"] = v}}

\* find({"_id": {"$in": oids}}).
FindByIdIn(coll, oids) ==
    {coll[o] : o \in {x \in DOMAIN coll : x \in oids}}

\* [ArtworkData(**doc) for doc in docs]
ArtworkDataList(docs) == [i \in 1..Len(docs) |-> ArtworkData(docs[i])]

\* Query bounds of the route: limit gt 0, skip ge 0.
Limits == {1, 2}
Skips == {0, 1}

\* A variant that treats a gallery whose artworks_id matches nothing as
\* not found.
GalleryAnswers_EmptyIsNotFound(gallery_id, limit, skip) ==
    IF ~ObjectIdIsValid(gallery_id)
    THEN {[status |-> 400, body |-> << >>, finds |-> 0]}
    ELSE IF ObjectId(gallery_id) \notin DOMAIN galleries
    THEN {[status |-> 404, body |-> << >>, finds |-> 1]}
    ELSE IF \/ ~Truthy(galleries[ObjectId(gallery_id)].artworks_id)
            \/ FindByArtworksId(artworks,
                   galleries[ObjectId(gallery_id)].artworks_id) = {}
    THEN {[status |-> 404, body |-> << >>, finds |-> 1]}
    ELSE {[status |-> 200,
           body |-> ArtworkDataList(SkipLimit(s, skip, limit)),
           finds |-> 2] :
            s \in NaturalOrders(FindByArtworksId(artworks,
                     galleries[ObjectId(gallery_id)].artworks_id))}

\* get_artworks_by_gallery_id: the answers the call can give.
GalleryAnswers(gallery_id, limit, skip) ==
    IF ~ObjectIdIsValid(gallery_id)
    THEN {[status |-> 400, body |-> << >>, finds |-> 0]}
    ELSE IF ObjectId(gallery_id) \notin DOMAIN galleries
    THEN {[status |-> 404, body |-> << >>, finds |-> 1]}
    ELSE IF ~Truthy(galleries[ObjectId(gallery_id)].artworks_id)
    THEN {[status |-> 404, body |-> << >>, finds |-> 1]}
    ELSE {[status |-> 200,
           body |-> ArtworkDataList(SkipLimit(s, skip, limit)),
           finds |-> 2] :
            s \in NaturalOrders(FindByArtworksId(artworks,
                     galleries[ObjectId(gallery_id)].artworks_id))}

LookupStarted(l) == lookups[l].pc # "idle"
NextLookup(l) ==
    ~LookupStarted(l) /\ \A k \in LookupIds : k < l => LookupStarted(k)

GetArtworksByGalleryId(l, gallery_id, limit, skip) ==
    /\ NextLookup(l)
    /\ \E a \in GalleryAnswers(gallery_id, limit, skip) :
          lookups' = [lookups EXCEPT ![l] =
              [IdleLookup EXCEPT !.pc = "done", !.op = "gallery",
                                 !.gallery_id = gallery_id,
                                 !.status = a.status, !.body = a.body,
                                 !.finds = a.finds]]
    /\ UNCHANGED <<artworks, users, today, calls, http, galleries, mongo, proxy, scrape, later>>

\* The ids argument: one string, or a list of strings.
IdLists == UNION {[1..n -> IdInputs] : n \in 0..MaxIds}

\* A variant that converts only the first id.
AllIdsValid_FirstOnly(id_list) ==
    id_list = << >> \/ ObjectIdIsValid(id_list[1])

\* [ObjectId(id_str) for id_str in id_list] raises on the first id that is
\* not one, wherever it stands.
AllIdsValid(id_list) == \A i \in DOMAIN id_list : ObjectIdIsValid(id_list[i])

\* fetch_artworks_by_ids: the answers the call can give.  Cursor.to_list is
\* taken as the driver provides it since 4.9: the documents of the cursor.
FetchAnswers(id_list) ==
    IF id_list = << >>
    THEN {[err |-> "", body |-> << >>, finds |-> 0]}
    ELSE IF ~AllIdsValid(id_list)
    THEN {[err |-> "ValueError", body |-> << >>, finds |-> 0]}
    ELSE {[err |-> "", body |-> ArtworkDataList(s), finds |-> 1] :
            s \in NaturalOrders(FindByIdIn(artworks,
                     {ObjectId(id_list[i]) : i \in DOMAIN id_list}))}

FetchArtworksByIds(l, single, ids) ==
    /\ NextLookup(l)
    /\ single => Len(ids) = 1
    /\ \E a \in FetchAnswers(ids) :
          lookups' = [lookups EXCEPT ![l] =
              [IdleLookup EXCEPT !.pc = "done", !.op = "fetch",
                                 !.single = single, !.ids = ids,
                                 !.err = a.err, !.body = a.body,
                                 !.finds = a.finds]]
    /\ UNCHANGED <<artworks, users, today, calls, http, galleries, mongo, proxy, scrape, later>>

\* Artworks of the gallery model: each of the two ids stored or not, linked
\* to one of two groups or to none.
LinkedDocs(id) ==
    {RawDoc(ObjectId(id),
            [k \in ArtFields |-> IF k = "artworks_id" THEN g ELSE "orig"]) :
        g \in {Absent, "g1", "g2"}}

LinkedCollections ==
    {AsCollection(f) : f \in
        {h \in [{ObjectId(i) : i \in HexIds} ->
                  {None} \cup UNION {{Some(d) : d \in LinkedDocs(i)} : i \in HexIds}] :
            \A o \in DOMAIN h : h[o] # None => h[o][1]._id = o}}

\* Galleries: one gallery stored or not, its artworks_id missing, null,
\* empty, or naming a group that has artworks or has none.
StoredGalleries ==
    {<< >>} \cup
    {(StoredOid :> [_id |-> StoredOid, name |-> "gallery", artworks_id |-> g]) :
        g \in {Absent, Null, "", "g1", "g3"}}

InitGallery ==
    /\ artworks \in LinkedCollections
    /\ galleries \in StoredGalleries
    /\ users = << >>
    /\ today = 1
    /\ calls = [c \in CallIds |-> IdleCall]
    /\ http = NoRequests
    /\ lookups = [l \in LookupIds |-> IdleLookup]
    /\ mongo = MongoUnset
    /\ proxy = [p \in ProxyIds |-> IdleProxy]
    /\ scrape = NoScrape
    /\ LaterIdle

NextGallery ==
    \/ \E l \in LookupIds, g \in IdInputs, limit \in Limits, skip \in Skips :
          GetArtworksByGalleryId(l, g, limit, skip)
    \/ \E l \in LookupIds, single \in BOOLEAN, ids \in IdLists :
          FetchArtworksByIds(l, single, ids)

SpecGallery == InitGallery /\ [][NextGallery]_vars

(***************************************************************************)
(* Claims about the read-only lookups (SpecGallery).                       *)
(***************************************************************************)
GalleryDone(l) == lookups[l].pc = "done" /\ lookups[l].op = "gallery"
FetchDone(l) == lookups[l].pc = "done" /\ lookups[l].op = "fetch"

\* C11: get_artworks_by_gallery_id answers 400, before any lookup, for an id
\* that is not a valid store identifier; 404 for an unknown gallery; 404 for
\* a stored gallery without a non-empty artworks_id; and a successful empty
\* list for a stored gallery whose artworks_id matches no artwork.
C11_GalleryLookupOutcomes ==
    \A l \in LookupIds :
        GalleryDone(l) =>
            LET g == lookups[l].gallery_id
                oid == ObjectId(g)
            IN  /\ ~ObjectIdIsValid(g) =>
                      (lookups[l].status = 400 /\ lookups[l].finds = 0)
                /\ (ObjectIdIsValid(g) /\ oid \notin DOMAIN galleries) =>
                      lookups[l].status = 404
                /\ (ObjectIdIsValid(g) /\ oid \in DOMAIN galleries) =>
                      /\ galleries[oid].artworks_id \in {Absent, Null, ""} =>
                            lookups[l].status = 404
                      /\ ( /\ galleries[oid].artworks_id \notin {Absent, Null, ""}
                           /\ \A a \in DOMAIN artworks :
                                 artworks[a].f["artworks_id"]
                                     # galleries[oid].artworks_id ) =>
                            (lookups[l].status = 200 /\ lookups[l].body = << >>)

\* A stored gallery whose artworks_id matches no artwork was looked up and
\* answered with the empty list, while the store holds artworks of another
\* group.
C11_Witness ==
    \E l \in LookupIds :
        /\ GalleryDone(l)
        /\ ObjectId(lookups[l].gallery_id) \in DOMAIN galleries
        /\ galleries[ObjectId(lookups[l].gallery_id)].artworks_id = "g3"
        /\ artworks # << >>
        /\ lookups[l].status = 200
        /\ lookups[l].body = << >>

\* The ids of a fetch_artworks_by_ids input that the store holds.
StoredAmong(ids) ==
    {ids[i] : i \in {j \in DOMAIN ids : ObjectId(ids[j]) \in DOMAIN artworks}}

\* C12: fetch_artworks_by_ids returns the empty list with no store access
\* for an empty input; fails with the invalid-id error and no store lookup
\* when any id, at any position, is not a valid store identifier; and
\* otherwise returns exactly the stored artworks whose ids are in the input,
\* each once, the ids the store does not hold being dropped.
C12_FetchByIdsOutcomes ==
    \A l \in LookupIds :
        FetchDone(l) =>
            LET ids == lookups[l].ids
            IN  /\ ids = << >> =>
                      /\ lookups[l].err = ""
                      /\ lookups[l].body = << >>
                      /\ lookups[l].finds = 0
                /\ (\E i \in DOMAIN ids : ~ObjectIdIsValid(ids[i])) =>
                      /\ lookups[l].err = "ValueError"
                      /\ lookups[l].finds = 0
                /\ (ids # << >> /\ \A i \in DOMAIN ids : ObjectIdIsValid(ids[i])) =>
                      /\ lookups[l].err = ""
                      /\ lookups[l].finds = 1
                      /\ Len(lookups[l].body) = Cardinality(StoredAmong(ids))
                      /\ {lookups[l].body[i].id : i \in DOMAIN lookups[l].body}
                             = StoredAmong(ids)
                      /\ \A i \in DOMAIN lookups[l].body :
                             lookups[l].body[i]
                                = ArtworkData(artworks[ObjectId(lookups[l].body[i].id)])

\* A list of two valid ids was fetched, one stored and one not, and the
\* answer holds the stored one alone.
C12_Witness ==
    \E l \in LookupIds :
        /\ FetchDone(l)
        /\ lookups[l].ids = <<"a2", "a1">>
        /\ ObjectId("a1") \in DOMAIN artworks
        /\ ObjectId("a2") \notin DOMAIN artworks
        /\ Len(lookups[l].body) = 1
        /\ lookups[l].body[1].id = "a1"

(***************************************************************************)
(* engine/data/db.py: the process-wide client and database handle.  The    *)
(* three functions are synchronous, so each call is one step.              *)
(***************************************************************************)
DbOpsLeft == Len(mongo.log) < MaxDbOps

\* A handle is the database of one client.
HandleOf(k) == [client |-> k, name |-> "artatlas"]

\* The except branch of connect_to_mongo: with `global _mongo_client, _db`
\* both names are the module's.  A variant that forgets the handle is kept
\* beside it.
ConnectFailure_KeepsHandle(m, k) ==
    [m EXCEPT !.client = None, !.db = Some(HandleOf(k)), !.created = k,
              !.log = Append(@, "connect_failed")]

ConnectFailure(m, k) ==
    [m EXCEPT !.client = None, !.db = None, !.created = k,
              !.log = Append(@, "connect_failed")]

\* A variant without the `if _mongo_client is None` guard.
ConnectToMongo_NoGuard ==
    /\ DbOpsLeft
    /\ LET k == mongo.created + 1
       IN  \/ mongo' = [mongo EXCEPT !.client = Some(k),
                                     !.db = Some(HandleOf(k)),
                                     !.created = k,
                                     !.log = Append(@, "connect_ok")]
           \/ mongo' = ConnectFailure(mongo, k)
    /\ UNCHANGED <<artworks, users, today, calls, http, galleries, lookups, proxy, scrape, later>>

\* connect_to_mongo: with no client set a client is constructed and pinged;
\* with one set nothing happens.
ConnectToMongo ==
    /\ DbOpsLeft
    /\ IF mongo.client = None
       THEN LET k == mongo.created + 1
            IN  \/ mongo' = [mongo EXCEPT !.client = Some(k),
                                          !.db = Some(HandleOf(k)),
                                          !.created = k,
                                          !.log = Append(@, "connect_ok")]
                \/ mongo' = ConnectFailure(mongo, k)
       ELSE mongo' = [mongo EXCEPT !.log = Append(@, "connect_noop")]
    /\ UNCHANGED <<artworks, users, today, calls, http, galleries, lookups, proxy, scrape, later>>

\* close_mongo_connection declares `global _mongo_client` only: its
\* `_db = None` binds a local name and the module's handle stays.
CloseMongoConnection ==
    /\ DbOpsLeft
    /\ IF mongo.client # None
       THEN mongo' = [mongo EXCEPT !.client = None,
                                   !.log = Append(@, "close")]
       ELSE mongo' = [mongo EXCEPT !.log = Append(@, "close_noop")]
    /\ UNCHANGED <<artworks, users, today, calls, http, galleries, lookups, proxy, scrape, later>>

\* get_db: RuntimeError when the module's handle is None, the handle
\* otherwise.
GetDb ==
    /\ DbOpsLeft
    /\ mongo' = [mongo EXCEPT !.log =
          Append(@, IF mongo.db = None THEN "get_raised" ELSE "get_handle")]
    /\ UNCHANGED <<artworks, users, today, calls, http, galleries, lookups, proxy, scrape, later>>

InitDb ==
    /\ artworks = << >>
    /\ users = << >>
    /\ today = 1
    /\ calls = [c \in CallIds |-> IdleCall]
    /\ http = NoRequests
    /\ AuxIdle

NextDb ==
    \/ ConnectToMongo
    \/ CloseMongoConnection
    \/ GetDb

SpecDb == InitDb /\ [][NextDb]_vars

(***************************************************************************)
(* Claims about the database handle (SpecDb).                              *)
(***************************************************************************)
\* The calls logged before position i.
LoggedBefore(i) == {mongo.log[j] : j \in 1..(i - 1)}

\* C13: a get_db call made while no connect_to_mongo call has succeeded,
\* failed calls included, raises the "not initialized" error and returns no
\* handle.
C13_GetDbBeforeConnectRaises ==
    \A i \in DOMAIN mongo.log :
        ( /\ mongo.log[i] \in {"get_raised", "get_handle"}
          /\ "connect_ok" \notin LoggedBefore(i) ) =>
            mongo.log[i] = "get_raised"

\* get_db was called after a connect_to_mongo call that failed its ping,
\* with no successful connect before it, and raised.
C13_Witness ==
    \E i \in DOMAIN mongo.log :
        /\ mongo.log[i] = "get_raised"
        /\ "connect_failed" \in LoggedBefore(i)
        /\ "connect_ok" \notin LoggedBefore(i)

\* C14: close_mongo_connection leaves both the client and the handle unset,
\* so that a get_db call made after a close, with no successful connect in
\* between, raises "not initialized"; a second close changes nothing.
C14_CloseClearsState ==
    /\ \A i \in DOMAIN mongo.log :
          ( /\ mongo.log[i] \in {"get_raised", "get_handle"}
            /\ \E j \in 1..(i - 1) :
                  /\ mongo.log[j] \in {"close", "close_noop"}
                  /\ \A k \in (j + 1)..(i - 1) : mongo.log[k] # "connect_ok" ) =>
              mongo.log[i] = "get_raised"
    /\ ( /\ mongo.log # << >>
         /\ mongo.log[Len(mongo.log)] \in {"close", "close_noop"} ) =>
            (mongo.client = None /\ mongo.db = None)

\* C15 as stated: only one client is ever constructed, and after a
\* connect_to_mongo call has succeeded no later call constructs another.
C15_OneClientEver ==
    [][( /\ "connect_ok" \in {mongo.log[j] : j \in DOMAIN mongo.log}
         /\ Len(mongo'.log) = Len(mongo.log) + 1
         /\ mongo'.log[Len(mongo'.log)]
               \in {"connect_ok", "connect_failed", "connect_noop"} ) =>
            /\ mongo'.created = mongo.created
            /\ mongo'.client = mongo.client
            /\ mongo'.db = mongo.db]_vars

\* C15, made precise: while a client is set (a connect_to_mongo call has
\* succeeded and close_mongo_connection has not been called since), a
\* further connect_to_mongo call constructs no client and leaves the client
\* and the handle get_db returns as they are.
C15_ConnectIdempotentWhileConnected ==
    [][( /\ mongo.client # None
         /\ Len(mongo'.log) = Len(mongo.log) + 1
         /\ mongo'.log[Len(mongo'.log)]
               \in {"connect_ok", "connect_failed", "connect_noop"} ) =>
            /\ mongo'.log[Len(mongo'.log)] = "connect_noop"
            /\ mongo'.created = mongo.created
            /\ mongo'.client = mongo.client
            /\ mongo'.db = mongo.db]_vars

\* connect_to_mongo was called again while connected, and get_db then
\* returned the handle of the one client constructed.
C15_Witness ==
    /\ Len(mongo.log) >= 3
    /\ mongo.log[1] = "connect_ok"
    /\ mongo.log[2] = "connect_noop"
    /\ mongo.log[3] = "get_handle"
    /\ mongo.created = 1
    /\ mongo.db = Some(HandleOf(1))

(***************************************************************************)
(* ProcessImages.proxy_image.  The coroutine yields at `await client.get`, *)
(* and the response it returns is streamed after the handler has returned; *)
(* calls interleave at those points.  client.get is a non-streaming        *)
(* request: the library reads the whole body and closes the upstream       *)
(* response before get returns, and the `async with` block closes the      *)
(* client, with its connections, when the handler leaves it.               *)
(***************************************************************************)
\* What the URL begins with.
UrlSchemes == {"http://", "https://", "ftp://", ""}

\* url.startswith(("http://", "https://"))
SchemeAllowed(sc) == sc \in {"http://", "https://"}

\* The content-type header of an upstream response, Absent when it has none.
ContentTypes == {Absent, "text/html", "image/png"}

\* content_type.startswith("image/"), on the content types of the model.
StartsWithImage(ct) == ct \in {"image/png"}

\* The upstream body, as the chunks aiter_bytes hands out.
UpstreamBody == <<"b1", "b2">>

\* What `await client.get(...)` followed by raise_for_status can bring: a
\* timeout, another request error, or a response with a status.
FetchOutcomes ==
    {[kind |-> "timeout", upstream |-> 0, content_type |-> Absent],
     [kind |-> "request_error", upstream |-> 0, content_type |-> Absent]}
    \cup {[kind |-> "response", upstream |-> st, content_type |-> ct] :
            st \in {200, 404}, ct \in ContentTypes}

ProxyStarted(p) == proxy[p].pc # "idle"
NextProxy(p) ==
    ~ProxyStarted(p) /\ \A q \in ProxyIds : q < p => ProxyStarted(q)

\* Line 13-17: the scheme gate, then the client is opened.
ProxyImage(p, sc) ==
    /\ NextProxy(p)
    /\ proxy' = [proxy EXCEPT ![p] =
          IF ~SchemeAllowed(sc)
          THEN [IdleProxy EXCEPT !.pc = "done", !.scheme = sc, !.status = 400]
          ELSE [IdleProxy EXCEPT !.pc = "fetch", !.scheme = sc,
                                 !.client = "open"]]
    /\ UNCHANGED <<artworks, users, today, calls, http, galleries, lookups, mongo, scrape, later>>

\* Lines 19-26: the fetch.  An exception leaves the `async with` block, which
\* closes the client.  A response comes back read and closed.
ProxyFetch(p) ==
    /\ proxy[p].pc = "fetch"
    /\ \E o \in FetchOutcomes :
          proxy' = [proxy EXCEPT ![p] =
             IF o.kind = "timeout"
             THEN [@ EXCEPT !.pc = "done", !.fetches = @ + 1, !.status = 504,
                            !.client = "closed"]
             ELSE IF o.kind = "request_error"
             THEN [@ EXCEPT !.pc = "done", !.fetches = @ + 1, !.status = 502,
                            !.client = "closed"]
             ELSE [@ EXCEPT !.pc = "check", !.fetches = @ + 1,
                            !.upstream = o.upstream,
                            !.content_type = o.content_type,
                            !.response = "closed"]]
    /\ UNCHANGED <<artworks, users, today, calls, http, galleries, lookups, mongo, scrape, later>>

\* A variant of the handler's tail that returns the streaming response
\* without leaving an `async with` block: the client stays open.
ProxyTail_ClientLeftOpen(q) ==
    IF q.upstream # 200
    THEN [q EXCEPT !.pc = "done", !.status = q.upstream, !.client = "closed"]
    ELSE IF q.content_type = Absent \/ ~StartsWithImage(q.content_type)
    THEN [q EXCEPT !.pc = "done", !.status = 415, !.response = "closed",
                   !.client = "closed"]
    ELSE [q EXCEPT !.pc = "streaming", !.status = 200,
                   !.media_type = q.content_type]

\* A variant of the handler's tail that answers with a fixed media type.
ProxyTail_FixedMediaType(q) ==
    IF q.upstream # 200
    THEN [q EXCEPT !.pc = "done", !.status = q.upstream, !.client = "closed"]
    ELSE IF q.content_type = Absent \/ ~StartsWithImage(q.content_type)
    THEN [q EXCEPT !.pc = "done", !.status = 415, !.response = "closed",
                   !.client = "closed"]
    ELSE [q EXCEPT !.pc = "streaming", !.status = 200,
                   !.media_type = "application/octet-stream",
                   !.client = "closed"]

\* Lines 20-39 after the fetch: raise_for_status, the content-type gate, the
\* StreamingResponse; leaving the `async with` block closes the client.
ProxyTail(q) ==
    IF q.upstream # 200
    THEN [q EXCEPT !.pc = "done", !.status = q.upstream, !.client = "closed"]
    ELSE IF q.content_type = Absent \/ ~StartsWithImage(q.content_type)
    THEN [q EXCEPT !.pc = "done", !.status = 415, !.response = "closed",
                   !.client = "closed"]
    ELSE [q EXCEPT !.pc = "streaming", !.status = 200,
                   !.media_type = q.content_type, !.client = "closed"]

ProxyCheck(p) ==
    /\ proxy[p].pc = "check"
    /\ proxy' = [proxy EXCEPT ![p] = ProxyTail(@)]
    /\ UNCHANGED <<artworks, users, today, calls, http, galleries, lookups, mongo, scrape, later>>

\* The server sends the next chunk of response.aiter_bytes(); after the last
\* one the background task response.aclose runs.
ProxyStream(p) ==
    /\ proxy[p].pc = "streaming"
    /\ proxy' = [proxy EXCEPT ![p] =
          IF Len(@.sent) < Len(UpstreamBody)
          THEN [@ EXCEPT !.sent = Append(@, UpstreamBody[Len(@) + 1])]
          ELSE [@ EXCEPT !.pc = "done", !.response = "closed"]]
    /\ UNCHANGED <<artworks, users, today, calls, http, galleries, lookups, mongo, scrape, later>>

\* The caller disconnects while the response is being streamed.
ProxyAbort(p) ==
    /\ proxy[p].pc = "streaming"
    /\ proxy' = [proxy EXCEPT ![p] = [@ EXCEPT !.pc = "done", !.aborted = TRUE]]
    /\ UNCHANGED <<artworks, users, today, calls, http, galleries, lookups, mongo, scrape, later>>

InitProxy ==
    /\ artworks = << >>
    /\ users = << >>
    /\ today = 1
    /\ calls = [c \in CallIds |-> IdleCall]
    /\ http = NoRequests
    /\ AuxIdle

NextProxyImage ==
    \/ \E p \in ProxyIds, sc \in UrlSchemes : ProxyImage(p, sc)
    \/ \E p \in ProxyIds : ProxyFetch(p)
    \/ \E p \in ProxyIds : ProxyCheck(p)
    \/ \E p \in ProxyIds : ProxyStream(p)
    \/ \E p \in ProxyIds : ProxyAbort(p)

SpecProxy == InitProxy /\ [][NextProxyImage]_vars

\* The event loop resumes a coroutine whose await has completed, and the
\* server keeps sending a response until it is sent or the caller is gone.
SpecProxyFair ==
    /\ SpecProxy
    /\ \A p \in ProxyIds :
          /\ WF_vars(ProxyFetch(p))
          /\ WF_vars(ProxyCheck(p))
          /\ WF_vars(ProxyStream(p) \/ ProxyAbort(p))

(***************************************************************************)
(* Claims about proxy_image (SpecProxy, SpecProxyFair).                    *)
(***************************************************************************)
\* C17: proxy_image answers 400, with no outbound fetch, for a URL that
\* begins with neither http:// nor https://; after a 2xx fetch it answers
\* 415 when the upstream content type is absent or does not start with
\* image/, and otherwise a streamed response whose media type is exactly
\* the upstream content type.
C17_ProxyGates ==
    \A p \in ProxyIds :
        /\ (ProxyStarted(p) /\ ~SchemeAllowed(proxy[p].scheme)) =>
              (proxy[p].status = 400 /\ proxy[p].fetches = 0)
        /\ ( /\ proxy[p].pc \in {"streaming", "done"}
             /\ proxy[p].upstream = 200 ) =>
              /\ proxy[p].content_type \in {Absent, "text/html"} =>
                    (proxy[p].status = 415 /\ proxy[p].sent = << >>)
              /\ proxy[p].content_type = "image/png" =>
                    /\ proxy[p].status = 200
                    /\ proxy[p].media_type = "image/png"
                    /\ \A i \in DOMAIN proxy[p].sent :
                          proxy[p].sent[i] = UpstreamBody[i]

\* One call was refused for its scheme without a fetch, and another streamed
\* an image/png upstream to the end under its content type.
C17_Witness ==
    \E p, q \in ProxyIds :
        /\ proxy[p].pc = "done" /\ proxy[p].scheme = "ftp://"
        /\ proxy[p].status = 400 /\ proxy[p].fetches = 0
        /\ proxy[q].pc = "done" /\ proxy[q].content_type = "image/png"
        /\ proxy[q].media_type = "image/png"
        /\ proxy[q].sent = UpstreamBody

\* The upstream response and the client's connections are released.
Released(p) == proxy[p].response = "closed" /\ proxy[p].client = "closed"

\* C18: once the fetch of a proxy_image call has produced a response, the
\* response and its connection are eventually released, whatever the
\* outcome: non-2xx status, 415, streaming completed, streaming aborted.
C18_UpstreamEventuallyReleased ==
    \A p \in ProxyIds : (proxy[p].pc = "check") ~> Released(p)

\* A call whose streaming was aborted by the caller after the first chunk
\* ended with the response and the client released.
C18_Witness ==
    \E p \in ProxyIds :
        /\ proxy[p].pc = "done"
        /\ proxy[p].aborted
        /\ Len(proxy[p].sent) = 1
        /\ Released(p)

(***************************************************************************)
(* HTTP layer: the routers of engine/routes, the FirebaseBearer dependency *)
(* and POST /user/subscription.                                            *)
(***************************************************************************)
ArtRoutes ==
    {"/art/search", "/art/collections", "/art/galleries",
     "/art/get_picture_details", "/art/artworks_by_gallery", "/art/askai"}

Routes == {"/", "/image/proxy-image", "/user/subscription"} \cup ArtRoutes

\* The routes that declare Depends(oauth2_scheme): the routers are included
\* without dependencies and only update_own_subscription declares it.
RouteDependsOnBearer(route) == route = "/user/subscription"

\* The routes whose handler takes the database handle (Depends(get_db));
\* ask_ai declares none.
RouteUsesStore(route) ==
    route \in (ArtRoutes \ {"/art/askai"}) \cup {"/user/subscription"}

\* What the Authorization header can carry: nothing, or a token the identity
\* provider finds expired, invalid, cannot verify, or valid for a uid.
Tokens == {"none", "expired", "invalid", "unverifiable", "u1", "u2"}
TokenIsValid(t) == t \in Uids

\* HTTPBearer answers a missing header itself (auto_error): 403 or 401,
\* which one depending on the framework version.
MissingTokenStatuses == {401, 403}

\* FirebaseBearer.__call__ on a present token: the status it raises, or 0
\* when verify_id_token returned the decoded token.
BearerStatus(t) ==
    CASE t = "expired" -> 401
      [] t = "invalid" -> 401
      [] t = "unverifiable" -> 500
      [] OTHER -> 0

SubscriptionStatuses == {"active", "inactive", "free_tier"}
ProviderIds == {None, Some("sub_1")}

\* update_fields: the three fields, those with value None filtered out.
UpdateFields(new_status, provider, now) ==
    LET all == [subscription_status |-> Some(new_status),
                subscription_provider_id |-> provider,
                updated_at |-> Some(now)]
    IN  [k \in {x \in DOMAIN all : all[x] # None} |-> all[k]]

\* The "$setOnInsert" document of the upsert.
SetOnInsertFields(u, email, now) ==
    [_id |-> Some(u), email |-> Some(email), created_at |-> Some(now),
     subscription_status |-> Some("free_tier")]

\* A document with the keys of `upd` set (values unwrapped where the field
\* is not itself optional).
OptionalFields == {"subscription_provider_id", "created_at", "updated_at"}
ApplyFields(doc, upd) ==
    [k \in DOMAIN doc |->
        IF k \in DOMAIN upd
        THEN (IF k \in OptionalFields THEN upd[k] ELSE upd[k][1])
        ELSE doc[k]]

\* find_one_and_update({"_id": u}, {"$set": s, "$setOnInsert": i},
\* upsert=True, return_document=AFTER).  The store rejects an update whose
\* operators name the same path twice ("Updating the path ... would create
\* a conflict"), whether or not a document matches; the driver raises
\* OperationFailure.
FindOneAndUpdateUpsert(coll, u, s, i) ==
    IF DOMAIN s \cap DOMAIN i # {}
    THEN [err |-> TRUE, coll |-> coll, doc |-> None]
    ELSE LET new == IF u \in DOMAIN coll
                    THEN ApplyFields(coll[u], s)
                    ELSE ApplyFields(ApplyFields(NewUser(u, ""), i), s)
         IN  [err |-> FALSE,
              coll |-> (u :> new) @@ coll,
              doc |-> Some(new)]

\* update_own_subscription: the upsert and the answer.
UpdateOwnSubscription(coll, user, new_status, provider, now) ==
    LET r == FindOneAndUpdateUpsert(coll, user.uid,
                 UpdateFields(new_status, provider, now),
                 SetOnInsertFields(user.uid, user.email, now))
    IN  IF r.err \/ r.doc = None
        THEN [status |-> 500, coll |-> r.coll]
        ELSE [status |-> 200, coll |-> r.coll]

ReqStarted(r) == http[r].pc # "idle"
NextReqSlot(r) == ~ReqStarted(r) /\ \A q \in ReqIds : q < r => ReqStarted(q)

\* A request arrives; the route's dependencies are resolved before its
\* handler runs.
HttpReceive(r, route, token, new_status, provider) ==
    /\ NextReqSlot(r)
    /\ route # "/user/subscription" => (new_status = "" /\ provider = None)
    /\ route = "/user/subscription" => new_status \in SubscriptionStatuses
    /\ http' = [http EXCEPT ![r] =
          [IdleRequest EXCEPT
              !.pc = IF RouteDependsOnBearer(route) THEN "auth" ELSE "handler",
              !.route = route, !.token = token,
              !.new_status = new_status, !.provider = provider]]
    /\ UNCHANGED <<artworks, users, today, calls, aux>>

\* The detail FirebaseBearer.__call__ raises with, the provider's reason
\* standing for str(e).
BearerDetail(t) ==
    CASE t = "expired" -> "Token has expired"
      [] t = "invalid" -> "Invalid token: <reason>"
      [] t = "unverifiable" -> "An error occurred: <reason>"
      [] OTHER -> ""

\* FirebaseBearer.__call__.  super().__call__ raises for a request without
\* bearer credentials, so the `if not creds` branch is never taken.
BearerVerify(r) ==
    /\ http[r].pc = "auth"
    /\ LET t == http[r].token
       IN  IF t = "none"
           THEN \E st \in MissingTokenStatuses :
                  http' = [http EXCEPT ![r].pc = "done", ![r].status = st,
                                       ![r].detail = "Not authenticated"]
           ELSE IF BearerStatus(t) # 0
           THEN http' = [http EXCEPT ![r].pc = "done",
                                     ![r].status = BearerStatus(t),
                                     ![r].detail = BearerDetail(t)]
           ELSE http' = [http EXCEPT ![r].pc = "handler",
                            ![r].user = Some([uid |-> t, email |-> Email(t)])]
    /\ UNCHANGED <<artworks, users, today, calls, aux>>

\* The route's handler runs.  For the routes other than "/" and
\* "/user/subscription" only the fact that the handler ran, and whether it
\* was handed the store, is recorded here (status stays 0): their answers
\* are the business of the handlers themselves.
RunHandler(r) ==
    /\ http[r].pc = "handler"
    /\ LET q == [http[r] EXCEPT !.pc = "done", !.ran = TRUE,
                                !.store = RouteUsesStore(http[r].route)]
       IN  IF q.route = "/user/subscription"
           THEN LET res == UpdateOwnSubscription(users, q.user[1],
                               q.new_status, q.provider, today)
                IN  /\ http' = [http EXCEPT ![r] =
                          [q EXCEPT !.status = res.status,
                                    !.prior = IF q.user[1].uid \in DOMAIN users
                                              THEN Some(users[q.user[1].uid])
                                              ELSE None]]
                    /\ users' = res.coll
           ELSE IF q.route = "/"
           THEN /\ http' = [http EXCEPT ![r] = [q EXCEPT !.status = 200]]
                /\ users' = users
           ELSE /\ http' = [http EXCEPT ![r] = q]
                /\ users' = users
    /\ UNCHANGED <<artworks, today, calls, aux>>

\* Users with a subscription record when the service starts.
SubscribedUsers(u) ==
    {[NewUser(u, Email(u)) EXCEPT !.subscription_status = st,
                                  !.created_at = Some(1)] :
        st \in {"free_tier", "active"}}

InitHttp ==
    /\ artworks = (StoredOid :> RawDoc(StoredOid,
                       [k \in ArtFields |-> "orig"]))
    /\ today = FirstDay
    /\ users \in {<< >>} \cup {("u1" :> d) : d \in SubscribedUsers("u1")}
    /\ calls = [c \in CallIds |-> IdleCall]
    /\ http = NoRequests
    /\ AuxIdle

NextHttp ==
    \/ \E r \in ReqIds, route \in Routes, t \in Tokens,
          st \in SubscriptionStatuses \cup {""}, p \in ProviderIds :
            HttpReceive(r, route, t, st, p)
    \/ \E r \in ReqIds : BearerVerify(r)
    \/ \E r \in ReqIds : RunHandler(r)

SpecHttp == InitHttp /\ [][NextHttp]_vars

\* C8: every route other than "/" and "/image/proxy-image" runs its handler,
\* and reaches the store, only for a request whose bearer token has been
\* verified: a request whose handler ran on any other route carries the
\* verified user, and a request with a missing or rejected token never ran
\* an /art or /user handler.
C8_ProtectedRoutesVerified ==
    \A r \in ReqIds :
        (/\ http[r].route \notin {"", "/", "/image/proxy-image"}
         /\ (http[r].ran \/ http[r].store))
        => (TokenIsValid(http[r].token) /\ http[r].user # None)

\* C9: a POST /user/subscription whose handler runs for a uid that has no
\* stored record answers success and leaves a record under the token's uid
\* with the token's email and the posted new_status.
C9_NewUserCreated ==
    [][\A r \in ReqIds :
          (/\ http[r].pc = "handler"
           /\ http[r].route = "/user/subscription"
           /\ http'[r].pc = "done"
           /\ http[r].user[1].uid \notin DOMAIN users)
          => LET u == http[r].user[1].uid
             IN  /\ http'[r].status = 200
                 /\ u \in DOMAIN users'
                 /\ DOMAIN users' = DOMAIN users \cup {u}
                 /\ users'[u]._id = u
                 /\ users'[u].email = http[r].user[1].email
                 /\ users'[u].subscription_status = http[r].new_status]_vars

\* C10: a POST /user/subscription whose handler runs for a uid that already
\* has a stored record sets that record's subscription_status and
\* subscription_provider_id to the posted values and leaves its created_at
\* and email as they were.
C10_ExistingUserUpdated ==
    [][\A r \in ReqIds :
          (/\ http[r].pc = "handler"
           /\ http[r].route = "/user/subscription"
           /\ http'[r].pc = "done"
           /\ http[r].user[1].uid \in DOMAIN users)
          => LET u == http[r].user[1].uid
             IN  /\ u \in DOMAIN users'
                 /\ users'[u].subscription_status = http[r].new_status
                 /\ users'[u].subscription_provider_id = http[r].provider
                 /\ users'[u].created_at = users[u].created_at
                 /\ users'[u].email = users[u].email]_vars

\* A request whose bearer dependency has run.
BearerRan(r) ==
    /\ RouteDependsOnBearer(http[r].route)
    /\ http[r].pc \in {"handler", "done"}

\* C16: FirebaseBearer answers an absent bearer token with 401, an expired
\* token with 401 "Token has expired", any other invalid token with 401 and
\* the provider's reason, any other verification error with 500, and sets
\* request.state.user = {uid, email} exactly when verification succeeded.
C16_BearerOutcomes ==
    \A r \in ReqIds :
        BearerRan(r) =>
            /\ http[r].token = "none" => http[r].status = 401
            /\ http[r].token = "expired" =>
                  (http[r].status = 401 /\ http[r].detail = "Token has expired")
            /\ http[r].token = "invalid" =>
                  (http[r].status = 401 /\ http[r].detail = "Invalid token: <reason>")
            /\ http[r].token = "unverifiable" => http[r].status = 500
            /\ (http[r].user # None) <=> TokenIsValid(http[r].token)
            /\ http[r].user # None =>
                  http[r].user[1] = [uid |-> http[r].token,
                                     email |-> Email(http[r].token)]

\* What holds instead under SpecHttp: the outcomes of a request that carries
\* a bearer token are as above; a request without one is answered by the
\* parent class, with 403 or 401 and its own detail.
BearerOutcomesOfPresentToken ==
    \A r \in ReqIds :
        BearerRan(r) =>
            /\ http[r].token = "none" =>
                  /\ http[r].status \in MissingTokenStatuses
                  /\ http[r].detail = "Not authenticated"
            /\ http[r].token = "expired" =>
                  (http[r].status = 401 /\ http[r].detail = "Token has expired")
            /\ http[r].token = "invalid" =>
                  (http[r].status = 401 /\ http[r].detail = "Invalid token: <reason>")
            /\ http[r].token = "unverifiable" => http[r].status = 500
            /\ (http[r].user # None) <=> TokenIsValid(http[r].token)

(***************************************************************************)
(* POST /art/askai.  The route declares no dependency: it is handed        *)
(* neither the caller's identity nor the database handle.  It calls the    *)
(* route function get_picture_of_the_day directly, so that function's db   *)
(* parameter is its default, the Depends object, and any exception,        *)
(* HTTPException included, is turned into a 500 by the handler's except.   *)
(***************************************************************************)
\* The artwork_data form field: JSON that validates as ArtworkData with an
\* id, one without an id, or text that does not validate.
ArtworkForms == {[valid |-> TRUE, id |-> Some(i)] : i \in IdInputs}
                \cup {[valid |-> TRUE, id |-> None], [valid |-> FALSE, id |-> None]}

\* get_picture_of_the_day(id) called as a plain function: the exception it
\* raises.  An id that is not an ObjectId raises the 400 before db is used;
\* otherwise db["artworks"] on the Depends object raises TypeError.
PictureOfTheDayDirect(id) ==
    IF id # None /\ ~ObjectIdIsValid(id[1]) THEN "HTTPException400"
    ELSE "TypeError"

\* ask_ai: the status it answers with and whether llm_generate_audio_to_text
\* ran.
AskAiAnswer(form) ==
    IF ~form.valid THEN [status |-> 500, voice |-> FALSE, raised |-> "ValidationError"]
    ELSE [status |-> 500, voice |-> FALSE, raised |-> PictureOfTheDayDirect(form.id)]

\* Users as the quota sees them: subscription status, interaction counter,
\* last interaction date.
InteractingUsers(u, day) ==
    {[NewUser(u, Email(u)) EXCEPT !.subscription_status = st,
                                  !.daily_interaction_count = n,
                                  !.last_interaction_date = d] :
        st \in {"free_tier", "active"},
        n \in {0, RANDOM_ART_DAILY_LIMIT},
        d \in {None} \cup {Some(x) : x \in {day - 1, day}}}

\* One POST /art/askai by caller u.  The handler knows nothing of u; the
\* call frame keeps the caller's stored record and the date for the claims.
AskAi(c, u, form) ==
    /\ NextSlot(c)
    /\ LET a == AskAiAnswer(form)
       IN  calls' = [calls EXCEPT ![c] =
              [IdleCall EXCEPT !.pc = "done", !.uid = u, !.id = form.id,
                               !.cur = Some(today), !.status = a.status,
                               !.llm = IF a.voice THEN "ok" ELSE "none",
                               !.user = IF u \in DOMAIN users
                                        THEN Some(users[u]) ELSE None]]
    /\ UNCHANGED <<artworks, users, today, http, aux>>

InitAskAi ==
    /\ artworks = (StoredOid :> RawDoc(StoredOid,
                       [k \in ArtFields |-> "orig"]))
    /\ today = FirstDay
    /\ users \in {("u1" :> d) : d \in InteractingUsers("u1", FirstDay)}
    /\ calls = [c \in CallIds |-> IdleCall]
    /\ http = NoRequests
    /\ AuxIdle

NextAskAi ==
    \/ \E c \in CallIds, u \in Uids, form \in ArtworkForms : AskAi(c, u, form)
    \/ AdvanceDay

SpecAskAi == InitAskAi /\ [][NextAskAi]_vars

\* C19: a POST /art/askai by a caller whose subscription status is not
\* active and whose daily_interaction_count has reached 5 on the current
\* date is answered 429 without the voice-query LLM being invoked.
C19_AskAiQuotaRejects ==
    \A c \in CallIds :
        ( /\ calls[c].pc = "done"
          /\ calls[c].user # None
          /\ calls[c].user[1].subscription_status # "active"
          /\ calls[c].user[1].daily_interaction_count >= RANDOM_ART_DAILY_LIMIT
          /\ calls[c].user[1].last_interaction_date = calls[c].cur ) =>
            (calls[c].status = 429 /\ calls[c].llm = "none")

\* What holds instead under SpecAskAi: every call is answered 500 before the
\* voice-query LLM, whoever calls, and no user record is read or written.
AskAiAlwaysFails ==
    /\ \A c \in CallIds :
          calls[c].pc = "done" => (calls[c].status = 500 /\ calls[c].llm = "none")
    /\ \A u \in DOMAIN users :
          /\ users[u].daily_interaction_count \in {0, RANDOM_ART_DAILY_LIMIT}
          /\ users[u].last_interaction_date \in {None, Some(FirstDay - 1), Some(FirstDay)}

(***************************************************************************)
(* The scrapers av_gem.py, av_adv.py and av.py.  An entry of the output    *)
(* file is identified by its collection URL.  `file` is the output file,   *)
(* `site` the collection URLs the listing pages show in order, `start` the *)
(* file as the run loaded it, `data` the list the run keeps in memory,     *)
(* `processed` the set of URLs it skips, `todo` the collections handed to  *)
(* the worker pool, `fetched` the collections whose detail pages this run  *)
(* fetched, `done` the worker results the orchestrator has not taken yet,  *)
(* `completed` every worker result of the run in completion order, `saves` *)
(* the results after which the orchestrator saved, in order.               *)
(***************************************************************************)
Variants == {"av_gem", "av_adv", "av"}
Urls == {"C1", "C2"}
SeqsUpTo(S, n) == UNION {[1..k -> S] : k \in 0..n}

\* The number of entries of a list that carry the URL u.
CountOf(u, entries) == Cardinality({i \in DOMAIN entries : entries[i] = u})

\* A list without its i-th element.
RemoveAt(q, i) == [j \in 1..(Len(q) - 1) |-> IF j < i THEN q[j] ELSE q[j + 1]]

\* A variant of the skip test that never skips.
AlreadyProcessed_Never(u, processed) == FALSE

\* `collection_url in processed_collection_urls` / `href in done_urls`.
AlreadyProcessed(u, processed) == u \in processed

\* A run starts: the output file is loaded and the URLs of its entries
\* become the set to skip.
ScrapeRunStart ==
    /\ scrape.pc \in {"idle", "ended"}
    /\ scrape.runs < MaxRuns
    /\ scrape' = [scrape EXCEPT
          !.pc = "listing",
          !.start = scrape.file,
          !.data = scrape.file,
          !.processed = {scrape.file[i] : i \in DOMAIN scrape.file},
          !.pos = 0, !.todo = << >>, !.fetched = << >>,
          !.done = << >>, !.completed = << >>, !.saves = << >>,
          !.runs = @ + 1]
    /\ UNCHANGED <<artworks, users, today, calls, http, galleries, lookups, mongo, proxy, later>>

\* The listing loop meets the next collection.  av_gem.py scrapes it on the
\* spot unless its URL is in the set, which it extends as it goes; av_adv.py
\* and av.py put it on the list for the worker pool unless its URL is in the
\* set loaded from the file.
ScrapeListNext ==
    /\ scrape.pc = "listing"
    /\ scrape.pos < Len(scrape.site)
    /\ LET u == scrape.site[scrape.pos + 1]
       IN  IF AlreadyProcessed(u, scrape.processed)
           THEN scrape' = [scrape EXCEPT !.pos = @ + 1]
           ELSE IF scrape.variant = "av_gem"
           THEN scrape' = [scrape EXCEPT
                   !.pos = @ + 1,
                   !.fetched = Append(@, u),
                   !.data = Append(@, u),
                   !.processed = @ \cup {u},
                   !.file = Append(scrape.data, u)]
           ELSE scrape' = [scrape EXCEPT !.pos = @ + 1,
                                         !.todo = Append(@, u)]
    /\ UNCHANGED <<artworks, users, today, calls, http, galleries, lookups, mongo, proxy, later>>

\* The listing is exhausted: av_gem.py saves once more and ends; the others
\* hand the list to the pool.
ScrapeListEnd ==
    /\ scrape.pc = "listing"
    /\ scrape.pos = Len(scrape.site)
    /\ scrape' = [scrape EXCEPT
          !.pc = IF scrape.variant = "av_gem" \/ scrape.todo = << >>
                 THEN "ended" ELSE "workers",
          !.file = IF scrape.variant = "av_gem" THEN scrape.data ELSE @]
    /\ UNCHANGED <<artworks, users, today, calls, http, galleries, lookups, mongo, proxy, later>>

\* What a worker can hand back.  av_adv.py's worker_process_collection
\* returns the collection with its artworks ("ok", or "empty" when none were
\* found) or, from its except branch, with artworks = [] and the key error
\* ("error"); av.py's process_gallery returns the gallery or raises.  A
\* worker whose future raises hands back nothing ("raised").
WorkerOutcomes(variant) ==
    IF variant = "av_adv" THEN {"ok", "empty", "error", "raised"}
    ELSE {"ok", "empty", "raised"}

\* "error" in processed_collection_object
HasError(res) == res = "error"

\* bool(processed_collection_object["artworks"])
HasArtworks(res) == res = "ok"

\* Whether the orchestrator appends a result a worker returned.
ResultKept(variant, res) ==
    IF variant = "av_adv" THEN ~HasError(res) \/ ~HasArtworks(res)
    ELSE TRUE

\* A variant of the order of the result loop: the newest result first.
NextCompleted_Newest(done) == Len(done)

\* as_completed yields the futures in the order they completed.
NextCompleted(done) == 1

\* A worker process scrapes one collection of the list and completes.  It
\* touches neither the list in the orchestrator's memory nor the file.
ScrapeWorkerRun ==
    /\ scrape.pc = "workers"
    /\ scrape.todo # << >>
    /\ \E i \in DOMAIN scrape.todo, res \in WorkerOutcomes(scrape.variant) :
          LET r == [url |-> scrape.todo[i], res |-> res]
          IN  scrape' = [scrape EXCEPT
                 !.todo = RemoveAt(@, i),
                 !.fetched = Append(@, r.url),
                 !.done = Append(@, r),
                 !.completed = Append(@, r)]
    /\ UNCHANGED <<artworks, users, today, calls, http, galleries, lookups, mongo, proxy, later>>

\* The orchestrator takes the next completed future.  If the future raises
\* nothing is appended or saved; otherwise the result is appended when
\* ResultKept says so and the file is rewritten from the list.
ScrapeWorkerDone ==
    /\ scrape.pc = "workers"
    /\ scrape.done # << >>
    /\ LET k == NextCompleted(scrape.done)
           r == scrape.done[k]
           data == IF ResultKept(scrape.variant, r.res)
                   THEN Append(scrape.data, r.url) ELSE scrape.data
       IN  IF r.res = "raised"
           THEN scrape' = [scrape EXCEPT !.done = RemoveAt(@, k)]
           ELSE scrape' = [scrape EXCEPT
                   !.done = RemoveAt(@, k),
                   !.data = data,
                   !.file = data,
                   !.saves = Append(@, r)]
    /\ UNCHANGED <<artworks, users, today, calls, http, galleries, lookups, mongo, proxy, later>>

\* The pool has no work left.
ScrapeWorkersEnd ==
    /\ scrape.pc = "workers"
    /\ scrape.todo = << >>
    /\ scrape.done = << >>
    /\ scrape' = [scrape EXCEPT !.pc = "ended"]
    /\ UNCHANGED <<artworks, users, today, calls, http, galleries, lookups, mongo, proxy, later>>

\* The run is interrupted; the output file stays as last written.
ScrapeInterrupt ==
    /\ scrape.pc \in {"listing", "workers"}
    /\ scrape' = [scrape EXCEPT !.pc = "ended"]
    /\ UNCHANGED <<artworks, users, today, calls, http, galleries, lookups, mongo, proxy, later>>

InitScrape ==
    /\ artworks = << >>
    /\ users = << >>
    /\ today = 1
    /\ calls = [c \in CallIds |-> IdleCall]
    /\ http = NoRequests
    /\ galleries = << >>
    /\ lookups = [l \in LookupIds |-> IdleLookup]
    /\ mongo = MongoUnset
    /\ proxy = [p \in ProxyIds |-> IdleProxy]
    /\ LaterIdle
    /\ scrape \in {[NoScrape EXCEPT !.variant = v, !.file = f, !.site = l] :
                     v \in Variants, f \in SeqsUpTo(Urls, MaxFile),
                     l \in SeqsUpTo(Urls, MaxListing)}

NextScrape ==
    \/ ScrapeRunStart
    \/ ScrapeListNext
    \/ ScrapeListEnd
    \/ ScrapeWorkerRun
    \/ ScrapeWorkerDone
    \/ ScrapeWorkersEnd
    \/ ScrapeInterrupt

SpecScrape == InitScrape /\ [][NextScrape]_vars

IsPrefix(s, t) == Len(s) <= Len(t) /\ \A i \in DOMAIN s : s[i] = t[i]

\* A file opened with mode 'w': empty, not yet a document.
Opened == [entries |-> << >>, complete |-> FALSE]

\* A collection completes: it joins the list in memory and the save begins
\* by opening the file it writes to.
DiskCollectionDone(u) ==
    /\ disk.pc = "run"
    /\ Len(disk.data) < MaxData
    /\ disk' = IF disk.variant = "av"
               THEN [disk EXCEPT !.data = Append(@, u), !.target = Opened,
                                 !.pc = "writing"]
               ELSE [disk EXCEPT !.data = Append(@, u), !.tmp = Some(Opened),
                                 !.pc = "tmp_writing"]
    /\ UNCHANGED <<artworks, users, today, calls, http, galleries, lookups,
                   mongo, proxy, scrape, parsed, pager>>

\* json.dump writes the next entry, or the end of the document.
WriteMore(f, data) ==
    IF Len(f.entries) < Len(data)
    THEN [f EXCEPT !.entries = Append(@, data[Len(f.entries) + 1])]
    ELSE [f EXCEPT !.complete = TRUE]

DiskWrite ==
    /\ disk.pc \in {"writing", "tmp_writing"}
    /\ disk' =
         IF disk.pc = "writing"
         THEN LET f == WriteMore(disk.target, disk.data)
              IN  [disk EXCEPT !.target = f,
                               !.pc = IF f.complete THEN "run" ELSE "writing"]
         ELSE LET f == WriteMore(disk.tmp[1], disk.data)
              IN  [disk EXCEPT !.tmp = Some(f),
                               !.pc = IF f.complete THEN "tmp_written"
                                      ELSE "tmp_writing"]
    /\ UNCHANGED <<artworks, users, today, calls, http, galleries, lookups,
                   mongo, proxy, scrape, parsed, pager>>

\* os.replace(temp, target).
DiskReplace ==
    /\ disk.pc = "tmp_written"
    /\ disk' = [disk EXCEPT !.target = disk.tmp[1], !.tmp = None, !.pc = "run"]
    /\ UNCHANGED <<artworks, users, today, calls, http, galleries, lookups,
                   mongo, proxy, scrape, parsed, pager>>

\* The write raises (disk full, ...): the handler prints and the run goes
\* on, with the file being written left as it is.
DiskWriteError ==
    /\ disk.pc \in {"writing", "tmp_writing"}
    /\ disk' = [disk EXCEPT !.pc = "run"]
    /\ UNCHANGED <<artworks, users, today, calls, http, galleries, lookups,
                   mongo, proxy, scrape, parsed, pager>>

\* The process is killed.
DiskInterrupt ==
    /\ disk.pc \in {"run", "writing", "tmp_writing", "tmp_written"}
    /\ disk' = [disk EXCEPT !.pc = "dead"]
    /\ UNCHANGED <<artworks, users, today, calls, http, galleries, lookups,
                   mongo, proxy, scrape, parsed, pager>>

\* The next run loads the target.  av.py's json.load of a file that does
\* not parse raises at import and the run ends there; load_scraped_data
\* answers such a file with the empty list.
DiskRestart ==
    /\ disk.pc = "dead"
    /\ disk.restarts < MaxRestarts
    /\ disk' = IF disk.target.complete
               THEN [disk EXCEPT !.pc = "run", !.data = disk.target.entries,
                                 !.restarts = @ + 1]
               ELSE IF disk.variant = "av"
               THEN [disk EXCEPT !.pc = "crashed", !.restarts = @ + 1]
               ELSE [disk EXCEPT !.pc = "run", !.data = << >>,
                                 !.restarts = @ + 1]
    /\ UNCHANGED <<artworks, users, today, calls, http, galleries, lookups,
                   mongo, proxy, scrape, parsed, pager>>

InitSave ==
    /\ artworks = << >>
    /\ users = << >>
    /\ today = 1
    /\ calls = [c \in CallIds |-> IdleCall]
    /\ http = NoRequests
    /\ galleries = << >>
    /\ lookups = [l \in LookupIds |-> IdleLookup]
    /\ mongo = MongoUnset
    /\ proxy = [p \in ProxyIds |-> IdleProxy]
    /\ scrape = NoScrape
    /\ parsed = NoParse
    /\ pager = NoPager
    /\ disk \in {[NoDisk EXCEPT !.variant = v, !.pc = "run",
                                !.target = FileOf(f), !.data = f] :
                    v \in Variants, f \in SeqsUpTo(Urls, 1)}

NextSave ==
    \/ \E u \in Urls : DiskCollectionDone(u)
    \/ DiskWrite
    \/ DiskReplace
    \/ DiskWriteError
    \/ DiskInterrupt
    \/ DiskRestart

SpecSave == InitSave /\ [][NextSave]_vars

\* C21: in every scraper variant the target file holds, at every instant
\* and so after an interruption at any point, a complete earlier snapshot
\* of the accumulated result, never a partially written one.
C21_TargetAlwaysComplete ==
    disk.pc # "idle" =>
        /\ disk.target.complete
        /\ (disk.pc # "dead" => IsPrefix(disk.target.entries, disk.data))

\* What holds instead under SpecSave: the two variants that save through
\* save_scraped_data keep the target complete at every instant.
TempFileVariantsAtomic ==
    disk.variant \in {"av_gem", "av_adv"} =>
        /\ disk.target.complete
        /\ (disk.pc # "dead" => IsPrefix(disk.target.entries, disk.data))

(***************************************************************************)
(* parse_result (engine/utils.py).  The argument is one raw document or a  *)
(* list of raw documents; either is kept here as the sequence of its       *)
(* documents together with its kind.  A document is a function from its    *)
(* keys to an optional value (None: the key is missing).                   *)
(***************************************************************************)
MaxDocs == 2
DocKeys == {"_id", "a", "db_id"}
RawIds == {ObjectId(h) : h \in HexIds}
FieldValues == {1, 2, 3, 4}
RawDocs == {[k \in DocKeys |-> CASE k = "_id" -> Some(x)
                                 [] k = "a" -> Some(v)
                                 [] OTHER -> None] :
               x \in RawIds, v \in FieldValues}

\* doc["db_id"] = str(doc["_id"]); del doc["_id"]
NormalizeDoc(doc) ==
    [doc EXCEPT !["db_id"] = Some(StrOfObjectId(doc["_id"][1])),
                !["_id"] = None]

\* A list that is not empty takes the loop; everything else is subscripted
\* with the string '_id', which a dict supports and a list does not.
ParseResult(kind, docs) ==
    IF kind = "list" /\ Len(docs) > 0
    THEN [pc |-> "returned", outKind |-> "list",
          out |-> [i \in DOMAIN docs |-> NormalizeDoc(docs[i])]]
    ELSE IF kind = "dict"
    THEN [pc |-> "returned", outKind |-> "dict",
          out |-> <<NormalizeDoc(docs[1])>>]
    ELSE [pc |-> "TypeError", outKind |-> "", out |-> << >>]

ParseResultCall ==
    /\ parsed.pc = "called"
    /\ LET r == ParseResult(parsed.kind, parsed.arg)
       IN  parsed' = [parsed EXCEPT !.pc = r.pc, !.outKind = r.outKind,
                                    !.out = r.out]
    /\ UNCHANGED <<artworks, users, today, calls, http, galleries, lookups,
                   mongo, proxy, scrape, disk, pager>>

ParseArgs ==
    {[NoParse EXCEPT !.pc = "called", !.kind = "dict", !.arg = <<d>>] :
        d \in RawDocs}
    \cup {[NoParse EXCEPT !.pc = "called", !.kind = "list", !.arg = l] :
        l \in SeqsUpTo(RawDocs, MaxDocs)}

InitParse ==
    /\ artworks = << >>
    /\ users = << >>
    /\ today = 1
    /\ calls = [c \in CallIds |-> IdleCall]
    /\ http = NoRequests
    /\ galleries = << >>
    /\ lookups = [l \in LookupIds |-> IdleLookup]
    /\ mongo = MongoUnset
    /\ proxy = [p \in ProxyIds |-> IdleProxy]
    /\ scrape = NoScrape
    /\ disk = NoDisk
    /\ pager = NoPager
    /\ parsed \in ParseArgs

NextParse == ParseResultCall

SpecParse == InitParse /\ [][NextParse]_vars

\* The document d is the raw document r with db_id = str(r._id), no _id
\* key, and every other field as it was.
Normalized(r, d) ==
    /\ d["_id"] = None
    /\ d["db_id"] = Some(StrOfObjectId(r["_id"][1]))
    /\ d["a"] = r["a"]

\* C22: parse_result turns one raw document into the same fields with
\* db_id = str(_id) and no _id; a list of any length, the empty list
\* included, into a list of the same length and order with every element
\* so transformed.
C22_ParseResultUniform ==
    parsed.pc \notin {"idle", "called"} =>
        /\ parsed.pc = "returned"
        /\ parsed.outKind = parsed.kind
        /\ Len(parsed.out) = Len(parsed.arg)
        /\ \A i \in DOMAIN parsed.arg : Normalized(parsed.arg[i], parsed.out[i])

\* What holds instead under SpecParse: the same for every argument but the
\* empty list, and the empty list raises TypeError.
ParseResultButEmptyList ==
    parsed.pc \notin {"idle", "called"} =>
        IF parsed.kind = "list" /\ parsed.arg = << >>
        THEN parsed.pc = "TypeError"
        ELSE /\ parsed.pc = "returned"
             /\ parsed.outKind = parsed.kind
             /\ Len(parsed.out) = Len(parsed.arg)
             /\ \A i \in DOMAIN parsed.arg :
                    Normalized(parsed.arg[i], parsed.out[i])

(***************************************************************************)
(* Properties of the worker pool and of the output list (SpecScrape).      *)
(***************************************************************************)
\* The results among rs that a worker returned (its future did not raise).
Returned(rs) == SelectSeq(rs, LAMBDA r : r.res # "raised")

\* C23: in the pooled scraper av_adv.py a worker process never writes the
\* output file; the orchestrator alone saves, once for each result a worker
\* returned, in the order the results completed.
C23_OnlyOrchestratorSaves ==
    /\ [](scrape.variant = "av_adv" =>
            /\ IsPrefix(scrape.saves, Returned(scrape.completed))
            /\ Len(scrape.saves) + Len(Returned(scrape.done))
                  = Len(Returned(scrape.completed)))
    /\ [][(scrape.variant = "av_adv" /\ scrape.pc = "workers"
                                    /\ scrape'.pc = "workers") =>
            IF scrape'.completed # scrape.completed
            THEN /\ scrape'.file = scrape.file
                 /\ scrape'.saves = scrape.saves
            ELSE (scrape'.file # scrape.file \/ scrape'.saves # scrape.saves) =>
                     /\ scrape.done # << >>
                     /\ scrape'.saves = Append(scrape.saves, Head(scrape.done))
                     /\ scrape'.file = scrape'.data]_vars

\* Two workers completed, for C1 and then for C2, before the orchestrator
\* took a result; it has taken and saved the first and the second waits.
C23_Witness ==
    /\ scrape.variant = "av_adv"
    /\ scrape.pc = "workers"
    /\ Len(scrape.completed) = 2
    /\ scrape.completed[1].url = "C1"
    /\ scrape.completed[2].url = "C2"
    /\ scrape.saves = <<scrape.completed[1]>>
    /\ scrape.done = <<scrape.completed[2]>>
    /\ scrape.file = Append(scrape.start, "C1")

\* C25: in av_adv.py's result loop a collection whose worker failed (error
\* set, no artworks) is not appended to the list that is saved, so the list
\* grows only by the results without error and a later run does not skip
\* the failed collection.
C25_FailedWorkerNotAppended ==
    (scrape.variant = "av_adv" /\ scrape.pc \in {"workers", "ended"}) =>
        /\ Len(scrape.data) = Len(scrape.start)
              + Cardinality({i \in DOMAIN scrape.saves :
                                ~HasError(scrape.saves[i].res)})
        /\ \A i \in DOMAIN scrape.saves :
              (HasError(scrape.saves[i].res)
                  /\ CountOf(scrape.saves[i].url, scrape.start) = 0
                  /\ \A j \in DOMAIN scrape.saves :
                        scrape.saves[j].url = scrape.saves[i].url
                            => HasError(scrape.saves[j].res))
              => CountOf(scrape.saves[i].url, scrape.file) = 0

\* What holds instead under SpecScrape: every result a worker of av_adv.py
\* returned is appended, the failed ones included.
EveryReturnedResultAppended ==
    (scrape.variant = "av_adv" /\ scrape.pc \in {"workers", "ended"}) =>
        /\ Len(scrape.data) = Len(scrape.start) + Len(scrape.saves)
        /\ \A i \in DOMAIN scrape.saves :
              CountOf(scrape.saves[i].url, scrape.file) > 0

\* C28: when the file a run loaded holds no collection URL twice, the file
\* holds no collection URL twice at any point of the run and after it,
\* whatever the listing pages show.
C28_NoDuplicateEntries ==
    scrape.pc # "idle" =>
        ((\A u \in Urls : CountOf(u, scrape.start) <= 1)
            => \A u \in Urls : CountOf(u, scrape.file) <= 1)

\* What holds instead under SpecScrape: av_gem.py, which extends the set of
\* URLs to skip as it goes, adds no URL twice.
SequentialScraperNoDuplicates ==
    (scrape.pc # "idle" /\ scrape.variant = "av_gem") =>
        ((\A u \in Urls : CountOf(u, scrape.start) <= 1)
            => \A u \in Urls : CountOf(u, scrape.file) <= 1)

(***************************************************************************)
(* scrape_single_collection (av_gem.py) and                                *)
(* actual_scrape_single_collection (av_adv.py): the walk through the pages *)
(* of one collection.  `site` is the collection's pages in order; a page   *)
(* says whether its artwork grid appears before the wait times out, which  *)
(* artworks it shows and what its next link is.  `page` is                 *)
(* artwork_page_num, `result` artworks_in_this_collection, `stop` the      *)
(* branch that ended the walk, `cap` MAX_ARTWORK_PAGES_PER_COLLECTION.     *)
(***************************************************************************)
MaxPages == 2

\* The next link of a page: a link to a further page ("new"), a link to the
\* page itself ("same"), a link without href ("nohref"), no link
\* (NoSuchElementException, "none"), a link gone stale when read
\* (StaleElementReferenceException, "stale"), a link whose target cannot be
\* opened (driver.get raises, "error").
NextLinks == {"new", "same", "nohref", "none", "stale", "error"}

\* Page i shows no artwork or its one artwork, named by the page.
PagesAt(i) == [load : BOOLEAN, arts : {<< >>, <<i>>}, next : NextLinks]

\* The pages of a collection: the last one has no link to a further page.
Sites ==
    UNION {{st \in [1..n -> UNION {PagesAt(i) : i \in 1..n}] :
               /\ \A i \in 1..n : st[i] \in PagesAt(i)
               /\ st[n].next # "new"} : n \in 1..MaxPages}

\* The values of MAX_ARTWORK_PAGES_PER_COLLECTION: None as shipped, or a
\* number of pages.
PageCaps == {None, Some(1)}

\* MAX_ARTWORK_PAGES_PER_COLLECTION and artwork_page_num > MAX_...
CapExceeded(cap, page) == cap # None /\ page > cap[1]

\* A variant of the empty-page test that also stops on the first page.
ZeroArtworksStops_AnyPage(arts, page) == arts = << >>

\* not artworks_from_this_page and artwork_page_num > 1
ZeroArtworksStops(arts, page) == arts = << >> /\ page > 1

\* driver.get(collection_url): on an exception the function returns [].
PagerOpen ==
    /\ pager.pc = "called"
    /\ \E ok \in BOOLEAN :
          pager' = IF ok THEN [pager EXCEPT !.pc = "loop", !.page = 1]
                   ELSE [pager EXCEPT !.pc = "returned", !.stop = "open"]
    /\ UNCHANGED <<artworks, users, today, calls, http, galleries, lookups,
                   mongo, proxy, scrape, disk, parsed>>

\* One turn of the while loop.
PagerVisit ==
    /\ pager.pc = "loop"
    /\ LET p == pager.site[pager.page]
       IN  pager' =
             IF CapExceeded(pager.cap, pager.page)
             THEN [pager EXCEPT !.pc = "returned", !.stop = "cap"]
             ELSE IF ~p.load
             THEN [pager EXCEPT !.pc = "returned", !.stop = "timeout"]
             ELSE IF ZeroArtworksStops(p.arts, pager.page)
             THEN [pager EXCEPT !.pc = "returned", !.stop = "zero"]
             ELSE IF p.next = "new"
             THEN [pager EXCEPT !.result = @ \o p.arts, !.page = @ + 1]
             ELSE [pager EXCEPT !.result = @ \o p.arts, !.pc = "returned",
                                !.stop = p.next]
    /\ UNCHANGED <<artworks, users, today, calls, http, galleries, lookups,
                   mongo, proxy, scrape, disk, parsed>>

InitPager ==
    /\ artworks = << >>
    /\ users = << >>
    /\ today = 1
    /\ calls = [c \in CallIds |-> IdleCall]
    /\ http = NoRequests
    /\ galleries = << >>
    /\ lookups = [l \in LookupIds |-> IdleLookup]
    /\ mongo = MongoUnset
    /\ proxy = [p \in ProxyIds |-> IdleProxy]
    /\ scrape = NoScrape
    /\ disk = NoDisk
    /\ parsed = NoParse
    /\ pager \in {[NoPager EXCEPT !.pc = "called", !.cap = c, !.site = st] :
                     c \in PageCaps, st \in Sites}

NextPager ==
    \/ PagerOpen
    \/ PagerVisit

SpecPager == InitPager /\ [][NextPager]_vars

RECURSIVE ArtsOfPages(_, _)
\* The artworks of the first n pages of a site, in order.
ArtsOfPages(st, n) ==
    IF n = 0 THEN << >> ELSE ArtsOfPages(st, n - 1) \o st[n].arts

\* The stop conditions the claim names, for page i of the walk.
NamedStop(pg) ==
    LET p == pg.site[pg.page]
    IN  \/ p.next = "none"
        \/ p.next = "same"
        \/ (p.arts = << >> /\ pg.page > 1)
        \/ (pg.cap # None /\ pg.page > pg.cap[1])

\* The further conditions on which the code stops.
OtherStop(pg) ==
    LET p == pg.site[pg.page]
    IN  \/ ~p.load
        \/ p.next \in {"nohref", "stale", "error"}

\* The walk is at page n and the pages before it gave no reason to stop.
WalkedTo(pg, stops(_)) ==
    \A i \in 1..(pg.page - 1) : ~stops([pg EXCEPT !.page = i])

\* The artworks of the pages the walk extracted from: those before the
\* page it stands on and, once it has returned, that page too unless the
\* cap or the wait kept it from extracting.
Extracted(pg) ==
    IF pg.page = 0 THEN << >>
    ELSE IF /\ pg.pc = "returned"
            /\ ~(pg.cap # None /\ pg.page > pg.cap[1])
            /\ pg.site[pg.page].load
    THEN ArtsOfPages(pg.site, pg.page)
    ELSE ArtsOfPages(pg.site, pg.page - 1)

\* C24: the walk through a collection stops exactly when no next link is
\* found, the next link points at the current page, a page after the first
\* shows no artwork, or the page cap is exceeded; every artwork extracted
\* from a visited page before the stop is in the result.
C24_StopsExactlyOnNamed ==
    (pager.pc \in {"loop", "returned"} /\ pager.page >= 1) =>
        /\ WalkedTo(pager, NamedStop)
        /\ (pager.pc = "returned" => NamedStop(pager))
        /\ pager.result = Extracted(pager)

\* C24 as it holds: the walk also stops when the collection page cannot be
\* opened (nothing is scraped), when the wait for a page's grid times out,
\* when the next link has no href or has gone stale, and when its target
\* cannot be opened; it stops on no other page; every artwork extracted
\* from a visited page before the stop is in the result.
C24_StopsOnNamedOrFailure ==
    pager.pc \in {"loop", "returned"} =>
        IF pager.page = 0
        THEN pager.pc = "returned" /\ pager.stop = "open" /\ pager.result = << >>
        ELSE /\ WalkedTo(pager, LAMBDA pg : NamedStop(pg) \/ OtherStop(pg))
             /\ (pager.pc = "returned" => NamedStop(pager) \/ OtherStop(pager))
             /\ pager.result = Extracted(pager)

\* The first page showed its artwork and linked on; the wait for the second
\* page timed out and the walk returned the first page's artwork.
C24_Witness ==
    /\ pager.pc = "returned"
    /\ pager.page = 2
    /\ pager.stop = "timeout"
    /\ pager.site[1].arts = <<1>>
    /\ pager.site[2].arts = <<2>>
    /\ pager.result = <<1>>

(***************************************************************************)
(* get_picture_of_the_day with and without an id, side by side, over a     *)
(* users collection that holds records.                                    *)
(***************************************************************************)
InitPicture ==
    /\ artworks \in {(StoredOid :> d) :
                        d \in {x \in StoredDocs :
                                  /\ x.f["image_url"] = "orig"
                                  /\ x.f["description"] = "orig"
                                  /\ x.f["details_in_image"] \in {Absent, "orig"}}}
    /\ today = FirstDay
    /\ users \in {<< >>} \cup
                 {("u1" :> d) : d \in {x \in StoredUsers("u1", FirstDay) :
                                          /\ x.daily_random_art_ids = << >>
                                          /\ x.last_random_art_date
                                                \in {None, Some(FirstDay)}}}
    /\ calls = [c \in CallIds |-> IdleCall]
    /\ http = NoRequests
    /\ AuxIdle

NextPicture ==
    \/ \E c \in CallIds, u \in Uids, id \in IdInputs : GetPictureById(c, u, id)
    \/ \E c \in CallIds : EnrichReturn(c)
    \/ \E c \in CallIds, u \in Uids : RandomStart(c, u)
    \/ \E c \in CallIds : CheckUserInsert(c)
    \/ \E c \in CallIds : ResetDailyCounter(c)

SpecPicture == InitPicture /\ [][NextPicture]_vars

\* C26: a call without an id that overlaps no other call of its user is
\* answered without an internal error, and no user's
\* daily_random_art_count_img exceeds 5.
C26_SequentialPicksWithinQuota ==
    /\ \A u \in DOMAIN users :
          users[u].daily_random_art_count_img <= RANDOM_ART_DAILY_LIMIT
    /\ \A c \in CallIds :
          ( /\ calls[c].pc = "done"
            /\ calls[c].id = None
            /\ calls[c].with = {}
            /\ \A d \in CallIds : c \notin calls[d].with ) =>
              calls[c].status = 200

\* C27: whatever the interleaving of the calls for one artwork id whose
\* record has no details_in_image, the LLM worker is invoked by at most one
\* of them, and once they have all answered the stored record has
\* details_in_image populated.
C27_ConcurrentEnrichOnce ==
    \A id \in HexIds :
        LET invoked == {c \in CallIds : /\ calls[c].id = Some(id)
                                        /\ \/ calls[c].pc = "llm"
                                           \/ calls[c].llm # "none"}
        IN  /\ Cardinality(invoked) <= 1
            /\ (invoked # {} /\ \A c \in invoked : calls[c].pc = "done") =>
                   Truthy(artworks[ObjectId(id)].f["details_in_image"])

\* C29: a step of a call that carries an id leaves the users collection as
\* it was, and the call never holds a user record: its answer does not
\* depend on the caller's counter, last-view date or seen-today list.
C29_IdLookupIgnoresUsers ==
    [][\A c \in CallIds :
          (calls'[c] # calls[c] /\ calls'[c].id # None) =>
              /\ users' = users
              /\ calls'[c].user = None
              /\ ~calls'[c].reset]_vars

\* A user whose quota of the day is used up looked an artwork up by id and
\* was answered 200; the user's record is as stored.
C29_Witness ==
    \E c \in CallIds :
        /\ calls[c].pc = "done"
        /\ calls[c].id = Some("a1")
        /\ calls[c].status = 200
        /\ calls[c].uid \in DOMAIN users
        /\ users[calls[c].uid].daily_random_art_count_img = RANDOM_ART_DAILY_LIMIT
        /\ users[calls[c].uid].last_random_art_date = Some(today)

\* C30: of two overlapping calls of check_user for one user id, both return
\* a user record and the collection holds the record for that id.
C30_ConcurrentCheckUserBothReturn ==
    \A c, d \in CallIds :
        ( /\ c # d
          /\ calls[c].id = None /\ calls[d].id = None
          /\ calls[c].uid = calls[d].uid
          /\ d \in calls[c].with
          /\ calls[c].pc \notin {"idle", "insert"}
          /\ calls[d].pc \notin {"idle", "insert"} ) =>
            /\ calls[c].user # None
            /\ calls[d].user # None
            /\ calls[c].uid \in DOMAIN users

====
